---- MODULE Spec2Model ----
(***************************************************************************)
(* Model of tuzk-ts: the Tuzk task state machine (src/src/tuzk.ts), the    *)
(* TuzkManager admission scheduler (src/src/tuzk/index.ts, lines 568-812)  *)
(* and the dependency wiring of the dependency-aware Tuzk                  *)
(* (src/src/tuzk/index.ts, lines 94-524).                                  *)
(*                                                                         *)
(* JavaScript runs one job at a time, so every action below is one job:    *)
(* an API call made by the host program, or one continuation of an         *)
(* in-flight run() (a microtask).  Delegate broadcasts are synchronous:    *)
(* the listeners a setState triggers run inside the same action.           *)
(***************************************************************************)
EXTENDS Integers, Sequences, FiniteSets, TLC

\* ------------------------------------------------------------- bounds
NumTasks == 3
NumManagers == 2
MaxConcurrency == 2
MaxRuns == 2
MaxWaiters == 1
MaxQueue == 3
ProgressUnits == 2
MaxDeps == 1

Tasks == 1..NumTasks
Managers == 1..NumManagers

\* TuzkState (src/src/types.ts)
Pending == "pending"
Running == "running"
Paused == "paused"
Success == "success"
Failed == "failed"
Cancelled == "cancelled"
TuzkState == {Pending, Running, Paused, Success, Failed, Cancelled}

\* progress p/ProgressUnits stands for the real number in [0.0, 1.0]
ProgressOne == ProgressUnits
Undefined == "undefined"
\* an optional argument: absent, or given
NoArg == <<>>
Arg(x) == <<x>>

\* errors (src/src/errors.ts), and the plain Error the manager throws
CancelledError == "CancelledError"
InvalidStateError == "InvalidStateError"
NeverError == "NeverError"
TuzkError == "TuzkError"
RunnerError == "RunnerError"
ManagerError == "Error"

\* the dependency-aware Tuzk (src/src/tuzk/index.ts 94-524): its two further
\* states and its errors (src/src/tuzk/error.ts); its other states are
\* written with the names above
Waiting == "waiting"
Canceled == "canceled"
TuzkInvalidActionError == "TuzkInvalidActionError"
TuzkCanceledError == "TuzkCanceledError"
TuzkNeverError == "TuzkNeverError"
TuzkDependencyFailedError(d) == "TuzkDependencyFailedError(" \o ToString(d) \o ")"
Ok == "ok"

VARIABLES
    state, progress, shouldPause, shouldCancel, checkpointPromiseControl,
    result, error, runs,
    manager, dependencies, listening,
    pendingQueue, activated, finished, concurrency, waiters,
    dependenciesMap, waitForDependenciesPromiseAction, onStateUpdated,
    subtasks, promises, runner,
    ret,
    submitOrder, startOrder, resolution, call, settled, observed, told, toldPause,
    progressHeard, firstSettled, announced, recording

progVars == <<state, progress, shouldPause, shouldCancel, checkpointPromiseControl,
              result, error, runs, manager, dependencies, listening,
              pendingQueue, activated, finished, concurrency, waiters,
              dependenciesMap, waitForDependenciesPromiseAction, onStateUpdated,
              subtasks, promises, runner>>
ghostVars == <<submitOrder, startOrder, resolution, call, settled, observed, told,
               toldPause, progressHeard, firstSettled, announced, recording>>
vars == <<progVars, ret, ghostVars>>

\* ------------------------------------------------------------- the heap
\* The program state as one record, so that the synchronous call chains
\* (setState -> listener -> tryActivatePendingTasks -> run -> setState ...)
\* are compositions of operators on it.  log collects what happened inside
\* the action; overflow is set when a bound of the model would be exceeded.
Heap ==
    [state |-> state, progress |-> progress, shouldPause |-> shouldPause,
     shouldCancel |-> shouldCancel, control |-> checkpointPromiseControl,
     result |-> result, error |-> error, runs |-> runs,
     manager |-> manager, dependencies |-> dependencies, listening |-> listening,
     pendingQueue |-> pendingQueue, activated |-> activated, finished |-> finished,
     concurrency |-> concurrency, waiters |-> waiters,
     dependenciesMap |-> dependenciesMap,
     waitFor |-> waitForDependenciesPromiseAction, onStateUpdated |-> onStateUpdated,
     subtasks |-> subtasks, promises |-> promises, runner |-> runner,
     log |-> <<>>, overflow |-> FALSE, err |-> Ok]

Commit(h) ==
    /\ ~h.overflow
    /\ state' = h.state
    /\ progress' = h.progress
    /\ shouldPause' = h.shouldPause
    /\ shouldCancel' = h.shouldCancel
    /\ checkpointPromiseControl' = h.control
    /\ result' = h.result
    /\ error' = h.error
    /\ runs' = h.runs
    /\ manager' = h.manager
    /\ dependencies' = h.dependencies
    /\ listening' = h.listening
    /\ pendingQueue' = h.pendingQueue
    /\ activated' = h.activated
    /\ finished' = h.finished
    /\ concurrency' = h.concurrency
    /\ waiters' = h.waiters
    /\ dependenciesMap' = h.dependenciesMap
    /\ waitForDependenciesPromiseAction' = h.waitFor
    /\ onStateUpdated' = h.onStateUpdated
    /\ subtasks' = h.subtasks
    /\ promises' = h.promises
    /\ runner' = h.runner
    /\ ret' = IF recording = "call" THEN h.err ELSE ret

Emit(h, e) == [h EXCEPT !.log = Append(@, e)]

RemoveAt(s, i) == [j \in 1..(Len(s) - 1) |-> IF j < i THEN s[j] ELSE s[j + 1]]

SeqRange(s) == {s[i] : i \in 1..Len(s)}

\* ------------------------------------------------------------- Tuzk queries
IsActiveState(s) == s \in {Running, Paused}
IsFinishedState(s) == s \in {Success, Failed, Cancelled}
IsActive(h, t) == IsActiveState(h.state[t])
IsFinished(h, t) == IsFinishedState(h.state[t])

\* Tuzk.validateProgress: TRUE iff it does not throw
ValidateProgress(p) == ~(p < 0 \/ p > ProgressOne)

\* ------------------------------------------------------------- manager queries
\* variant: the active set is not consulted
IsAllFinishedQueueOnly(h, m) == Len(h.pendingQueue[m]) = 0

IsAllFinished(h, m) == Len(h.pendingQueue[m]) = 0 /\ Cardinality(h.activated[m]) = 0

\* $areDependenciesMet of the wrapper object
AreDependenciesMet(h, t) == \A d \in h.dependencies[t] : h.state[d] = Success

\* variant: one task too many is admitted
HasCapacityLoose(h, m) == Cardinality(h.activated[m]) <= h.concurrency[m]

HasCapacity(h, m) == Cardinality(h.activated[m]) < h.concurrency[m]

\* onAllTasksFinished.broadcast(): every waitForAll() listener resolves its
\* promise and removes itself
BroadcastAllFinished(h, m) ==
    LET h1 == IF h.waiters[m] > 0
              THEN Emit(h, <<"resolved", m, Len(h.pendingQueue[m]), Cardinality(h.activated[m])>>)
              ELSE h
    IN  [Emit(h1, <<"allFinished", m>>) EXCEPT !.waiters[m] = 0]

RECURSIVE SetState(_, _, _)
RECURSIVE ManagerListener(_, _, _)
RECURSIVE TryActivatePendingTasks(_, _, _)
RECURSIVE Run(_, _, _)
RECURSIVE CheckpointExecutor(_, _, _, _)

\* variant: setProgress() stores any number
SetProgressUnchecked(h, t, p) ==
    IF h.progress[t] = p THEN h
    ELSE Emit([h EXCEPT !.progress[t] = p], <<"progress", t, p>>)

\* Tuzk.setProgress: validateProgress throws before anything is stored;
\* onProgressUpdated broadcasts only on change
SetProgress(h, t, p) ==
    IF ~ValidateProgress(p) THEN [h EXCEPT !.err = TuzkError]
    ELSE IF h.progress[t] = p THEN h
    ELSE Emit([h EXCEPT !.progress[t] = p], <<"progress", t, p>>)

\* variant: the executor looks at the pause mark before the cancel mark
CheckpointExecutorPauseFirst(h, t, k, p) ==
    IF p # NoArg /\ ~ValidateProgress(p[1])
    THEN [h EXCEPT !.runs[t][k].prom = TuzkError]
    ELSE
      LET h1 == IF p # NoArg THEN [h EXCEPT !.progress[t] = p[1]] ELSE h
          h2 == [h1 EXCEPT !.control[t] = 0]
      IN  IF h2.shouldPause[t]
          THEN [SetState(h2, t, Paused) EXCEPT !.control[t] = k, !.runs[t][k].prom = "pending"]
          ELSE IF h2.shouldCancel[t]
          THEN [SetState(h2, t, Cancelled) EXCEPT !.runs[t][k].prom = CancelledError]
          ELSE [SetState(h2, t, Running) EXCEPT !.runs[t][k].prom = "resolved"]

\* The promise executor of Tuzk.checkpoint for the run at index k of runs[t]
\* (the state check of checkpoint has passed); p is NoArg or Arg(progress).
\* It settles or parks the
\* promise the run awaits; a validation error thrown by setProgress rejects it.
CheckpointExecutor(h, t, k, p) ==
    IF p # NoArg /\ ~ValidateProgress(p[1])
    THEN [h EXCEPT !.runs[t][k].prom = TuzkError]
    ELSE
      LET h1 == IF p # NoArg THEN [h EXCEPT !.progress[t] = p[1]] ELSE h
          h2 == [h1 EXCEPT !.control[t] = 0]
      IN  IF h2.shouldCancel[t]
          THEN [SetState(h2, t, Cancelled) EXCEPT !.runs[t][k].prom = CancelledError]
          ELSE IF h2.shouldPause[t]
          THEN [SetState(h2, t, Paused) EXCEPT !.control[t] = k, !.runs[t][k].prom = "pending"]
          ELSE [SetState(h2, t, Running) EXCEPT !.runs[t][k].prom = "resolved"]

\* variant: run() does not look at the state of the task
RunUnguarded(h, t, byManager) ==
    IF Len(h.runs[t]) >= MaxRuns THEN [h EXCEPT !.overflow = TRUE]
    ELSE LET h1 == SetState(h, t, Running)
             k == Len(h1.runs[t]) + 1
             h2 == [h1 EXCEPT !.runs[t] = Append(@, [pc |-> "cp0", prom |-> "none"])]
         IN  Emit(CheckpointExecutor(h2, t, k, Arg(0)), <<"run", t, byManager>>)

\* Tuzk.run() up to its first await: setState(Running), then the executor of
\* checkpoint(0).  (The listener the manager installs never changes the state
\* of a task that enters Running, so the state check of checkpoint(0) passes.)
\* On an active task the returned promise is rejected with InvalidStateError
\* and nothing changes.  byManager tells the log who called.
Run(h, t, byManager) ==
    IF IsActive(h, t)
    THEN [h EXCEPT !.err = InvalidStateError]
    ELSE IF Len(h.runs[t]) >= MaxRuns
    THEN [h EXCEPT !.overflow = TRUE]
    ELSE
      LET h1 == SetState(h, t, Running)
          k == Len(h1.runs[t]) + 1
          h2 == [h1 EXCEPT !.runs[t] = Append(@, [pc |-> "cp0", prom |-> "none"])]
      IN  Emit(CheckpointExecutor(h2, t, k, Arg(0)), <<"run", t, byManager>>)

\* Tuzk.setState: broadcast only on change; the only listener modelled is the
\* one TuzkManager.wrapTuzk installs
SetState(h, t, s) ==
    IF h.state[t] = s THEN h
    ELSE LET old == h.state[t]
             h1 == Emit([h EXCEPT !.state[t] = s], <<"state", t, s, h.progress[t]>>)
         IN  IF h1.listening[t] THEN ManagerListener(h1, t, old) ELSE h1

\* variant: only a task that ended in Success leaves the active set
ListenerSuccessOnly(h, t, oldState) ==
    LET m == h.manager[t] IN
    IF IsActiveState(h.state[t])
    THEN IF ~IsActiveState(oldState) THEN Emit(h, <<"activated", t>>) ELSE h
    ELSE IF h.state[t] = Success
    THEN LET h1 == [h EXCEPT !.activated[m] = @ \ {t}, !.finished[m] = @ \cup {t}]
             h2 == TryActivatePendingTasks(h1, m, 1)
             h3 == Emit(h2, <<"finished", t>>)
             h4 == IF IsAllFinished(h3, m) THEN BroadcastAllFinished(h3, m) ELSE h3
         IN  [h4 EXCEPT !.listening[t] = FALSE]
    ELSE h

\* the listener of TuzkManager.wrapTuzk
ManagerListener(h, t, oldState) ==
    LET m == h.manager[t] IN
    IF IsActiveState(h.state[t])
    THEN IF ~IsActiveState(oldState) THEN Emit(h, <<"activated", t>>) ELSE h
    ELSE IF IsFinishedState(h.state[t])
    THEN LET h1 == [h EXCEPT !.activated[m] = @ \ {t}, !.finished[m] = @ \cup {t}]
             h2 == TryActivatePendingTasks(h1, m, 1)
             h3 == Emit(h2, <<"finished", t>>)
             h4 == IF IsAllFinished(h3, m) THEN BroadcastAllFinished(h3, m) ELSE h3
         IN  [h4 EXCEPT !.listening[t] = FALSE]
    ELSE h

\* variant: the sweep scans the queue from its newest entry
TryActivateNewestFirst(h, m, i) ==
    LET q == h.pendingQueue[m]
        j == Len(q) - i + 1
    IN  IF i <= Len(q) /\ HasCapacity(h, m)
        THEN IF AreDependenciesMet(h, q[j])
             THEN LET h1 == [h EXCEPT !.pendingQueue[m] = RemoveAt(@, j),
                                      !.activated[m] = @ \cup {q[j]}]
                      h2 == [Run(h1, q[j], TRUE) EXCEPT !.err = h1.err]
                      h3 == Emit(h2, <<"activated", q[j]>>)
                  IN  TryActivatePendingTasks(h3, m, i)
             ELSE TryActivatePendingTasks(h, m, i + 1)
        ELSE h

\* variant: the sweep ends at the first queued task it cannot start
TryActivateUntilUnmet(h, m, i) ==
    IF i <= Len(h.pendingQueue[m]) /\ HasCapacity(h, m)
    THEN LET task == h.pendingQueue[m][i] IN
         IF AreDependenciesMet(h, task)
         THEN LET h1 == [h EXCEPT !.pendingQueue[m] = RemoveAt(@, i),
                                  !.activated[m] = @ \cup {task}]
                  h2 == [Run(h1, task, TRUE) EXCEPT !.err = h1.err]
                  h3 == Emit(h2, <<"activated", task>>)
              IN  TryActivatePendingTasks(h3, m, i)
         ELSE h
    ELSE h

\* TuzkManager.tryActivatePendingTasks, from queue index i on
TryActivatePendingTasks(h, m, i) ==
    IF i <= Len(h.pendingQueue[m]) /\ HasCapacity(h, m)
    THEN LET task == h.pendingQueue[m][i] IN
         IF AreDependenciesMet(h, task)
         THEN LET h1 == [h EXCEPT !.pendingQueue[m] = RemoveAt(@, i),
                                  !.activated[m] = @ \cup {task}]
                  h2 == [Run(h1, task, TRUE) EXCEPT !.err = h1.err]
                  h3 == Emit(h2, <<"activated", task>>)
              IN  TryActivatePendingTasks(h3, m, i)
         ELSE TryActivatePendingTasks(h, m, i + 1)
    ELSE h

\* ------------------------------------------------------------- Tuzk control calls
\* variant: the latest settling of a promise wins
SettleAgain(h, t, how) ==
    LET k == h.control[t] IN
    IF k > 0 THEN [h EXCEPT !.runs[t][k].prom = how] ELSE h

\* settle the promise checkpointPromiseControl refers to; settling a promise
\* twice changes nothing
Settle(h, t, how) ==
    LET k == h.control[t] IN
    IF k > 0 /\ h.runs[t][k].prom = "pending"
    THEN [h EXCEPT !.runs[t][k].prom = how]
    ELSE h

\* variant: pause() is accepted in every state
PauseAnyState(h, t) == [h EXCEPT !.shouldPause[t] = TRUE]

\* Tuzk.pause
Pause(h, t) ==
    IF IsActive(h, t)
    THEN [h EXCEPT !.shouldPause[t] = TRUE]
    ELSE [h EXCEPT !.err = InvalidStateError]

\* variant: resume() clears the pause mark of a parked task only
ResumeParkedOnly(h, t) ==
    IF IsActive(h, t)
    THEN IF h.state[t] = Paused
         THEN IF h.control[t] = 0
              THEN [h EXCEPT !.shouldPause[t] = FALSE, !.err = NeverError]
              ELSE SetState([Settle([h EXCEPT !.shouldPause[t] = FALSE], t, "resolved")
                                EXCEPT !.control[t] = 0], t, Running)
         ELSE h
    ELSE [h EXCEPT !.err = InvalidStateError]

\* Tuzk.resume
Resume(h, t) ==
    IF IsActive(h, t)
    THEN LET h1 == [h EXCEPT !.shouldPause[t] = FALSE] IN
         IF h1.state[t] = Paused
         THEN IF h1.control[t] = 0
              THEN [h1 EXCEPT !.err = NeverError]
              ELSE SetState([Settle(h1, t, "resolved") EXCEPT !.control[t] = 0], t, Running)
         ELSE h1
    ELSE [h EXCEPT !.err = InvalidStateError]

\* variant: cancel() only sets the flag and leaves a parked checkpoint alone
CancelFlagOnly(h, t) ==
    IF h.state[t] \in {Running, Paused, Cancelled}
    THEN [h EXCEPT !.shouldCancel[t] = TRUE]
    ELSE [h EXCEPT !.err = InvalidStateError]

\* variant: cancel() ends a Running task at once
CancelAtOnce(h, t) ==
    IF h.state[t] \in {Running, Paused, Cancelled}
    THEN LET h1 == [h EXCEPT !.shouldCancel[t] = TRUE] IN
         IF h1.control[t] # 0 THEN Settle(h1, t, CancelledError)
         ELSE SetState(h1, t, Cancelled)
    ELSE [h EXCEPT !.err = InvalidStateError]

\* Tuzk.cancel
Cancel(h, t) ==
    IF h.state[t] \in {Running, Paused, Cancelled}
    THEN LET h1 == [h EXCEPT !.shouldCancel[t] = TRUE] IN
         IF h1.control[t] # 0 THEN Settle(h1, t, CancelledError) ELSE h1
    ELSE [h EXCEPT !.err = InvalidStateError]

\* variant: checkpoint() does not look at the state of the task
CheckpointCallUnguarded(h, t, p) ==
    IF p # NoArg /\ ~ValidateProgress(p[1]) THEN h
    ELSE LET h1 == IF p # NoArg THEN [h EXCEPT !.progress[t] = p[1]] ELSE h
             h2 == [h1 EXCEPT !.control[t] = 0]
         IN  IF h2.shouldCancel[t] THEN SetState(h2, t, Cancelled)
             ELSE IF h2.shouldPause[t]
             THEN [SetState(h2, t, Paused) EXCEPT !.control[t] = -1]
             ELSE SetState(h2, t, Running)

\* Tuzk.checkpoint called outside a runner that awaits it (by the host, or by
\* code the runner left behind): nothing awaits the promise, so its
\* settlement is not seen; parked, checkpointPromiseControl holds the
\* resolvers of that promise (-1)
CheckpointCall(h, t, p) ==
    IF h.state[t] # Running THEN [h EXCEPT !.err = InvalidStateError]
    ELSE IF p # NoArg /\ ~ValidateProgress(p[1]) THEN h
    ELSE LET h1 == IF p # NoArg THEN [h EXCEPT !.progress[t] = p[1]] ELSE h
             h2 == [h1 EXCEPT !.control[t] = 0]
         IN  IF h2.shouldCancel[t] THEN SetState(h2, t, Cancelled)
             ELSE IF h2.shouldPause[t]
             THEN [SetState(h2, t, Paused) EXCEPT !.control[t] = -1]
             ELSE h2

\* ------------------------------------------------------------- the end of a run
\* The run at index k leaves runs[t].  A checkpointPromiseControl that refers
\* to its promise keeps referring to that (settled) promise: -1.
RemoveRun(h, t, k) ==
    [h EXCEPT !.runs[t] = RemoveAt(@, k),
              !.control[t] = IF @ = k THEN -1 ELSE IF @ > k THEN @ - 1 ELSE @]

\* finally of Tuzk.run
Finally(h, t) == [h EXCEPT !.shouldCancel[t] = FALSE, !.shouldPause[t] = FALSE]

\* catch and finally of Tuzk.run: the run at index k ends with error e
RunCatch(h, t, k, e) ==
    LET h1 == [h EXCEPT !.error[t] = e]
        h2 == SetState(h1, t, IF e = CancelledError THEN Cancelled ELSE Failed)
    IN  Emit(RemoveRun(Finally(h2, t), t, k), <<"rejected", t, e>>)

\* variant: the state is set to Success before the progress is set to 1.0
RunReturnStateFirst(h, t, k, v) ==
    LET h1 == [h EXCEPT !.result[t] = v]
        h2 == SetState(h1, t, Success)
        h3 == [h2 EXCEPT !.progress[t] = ProgressOne]
    IN  Emit(RemoveRun(Finally(h3, t), t, k), <<"fulfilled", t, v>>)

\* the normal end of Tuzk.run: the runner of the run at index k returned v
RunReturn(h, t, k, v) ==
    LET h1 == [h EXCEPT !.result[t] = v]
        h2 == [h1 EXCEPT !.progress[t] = ProgressOne]
        h3 == SetState(h2, t, Success)
    IN  Emit(RemoveRun(Finally(h3, t), t, k), <<"fulfilled", t, v>>)

\* the continuation of an await on a settled checkpoint promise: the runner
\* goes on, or the rejection unwinds it (a runner that does not catch)
RunContinue(h, t, k) ==
    IF h.runs[t][k].prom = "resolved"
    THEN [h EXCEPT !.runs[t][k] = [pc |-> "runner", prom |-> "none"]]
    ELSE RunCatch(h, t, k, h.runs[t][k].prom)

\* the runner calls and awaits task.checkpoint(p); called while the task is
\* not Running it throws at once, which rejects the runner
RunnerCheckpoint(h, t, k, p) ==
    IF h.state[t] # Running
    THEN RunCatch(h, t, k, InvalidStateError)
    ELSE CheckpointExecutor([h EXCEPT !.runs[t][k].pc = "cp"], t, k, p)

\* ------------------------------------------------------------- the manager's calls
\* variant: a task owned by another manager is taken over
WrapTuzkAnyOwner(h, m, t) ==
    LET h1 == [h EXCEPT !.dependencies[t] = {}] IN
    IF h1.manager[t] = m THEN h1
    ELSE [h1 EXCEPT !.manager[t] = m, !.listening[t] = TRUE]

\* TuzkManager.wrapTuzk; err # Ok when it throws
WrapTuzk(h, m, t) ==
    LET h1 == [h EXCEPT !.dependencies[t] = {}] IN
    IF h1.manager[t] = m THEN h1
    ELSE IF h1.manager[t] # 0 THEN [h1 EXCEPT !.err = ManagerError]
    ELSE [h1 EXCEPT !.manager[t] = m, !.listening[t] = TRUE]

\* variant: the dependencies of the dependency are not followed
CanDependOnShallow(h, task, dep, fuel) ==
    IF dep = task THEN FALSE
    ELSE IF h.manager[dep] = 0 THEN FALSE
    ELSE dep \notin h.dependencies[dep]

\* canDependOn of TuzkManager.addDependency.  fuel is the recursion depth
\* left: a path through an acyclic graph is shorter than NumTasks + 1, and
\* an endless recursion ends in a thrown RangeError, which rejects the edge too.
RECURSIVE CanDependOn(_, _, _, _)
CanDependOn(h, task, dep, fuel) ==
    IF fuel = 0 THEN FALSE
    ELSE IF dep = task THEN FALSE
    ELSE IF h.manager[dep] = 0 THEN FALSE
    ELSE IF dep \in h.dependencies[dep] THEN FALSE
    ELSE \A d \in h.dependencies[dep] : CanDependOn(h, task, d, fuel - 1)

\* TuzkManager.addDependency
AddDependency(h, m, t, d) ==
    LET task == WrapTuzk(h, m, t) IN
    IF task.err # Ok THEN task
    ELSE IF ~CanDependOn(task, t, d, NumTasks + 1) THEN [task EXCEPT !.err = ManagerError]
    ELSE [task EXCEPT !.dependencies[t] = @ \cup {d}]

\* the loop of TuzkManager.submit over the given dependencies, in order
RECURSIVE AddDependencies(_, _, _, _, _)
AddDependencies(h, m, t, ds, i) ==
    IF i > Len(ds) \/ h.err # Ok THEN h
    ELSE AddDependencies(AddDependency(h, m, t, ds[i]), m, t, ds, i + 1)

\* TuzkManager.submit of an existing task with the dependencies ds
Submit(h, m, t, ds) ==
    LET task == WrapTuzk(Emit(h, <<"submit", t>>), m, t) IN
    IF task.err # Ok THEN task
    ELSE
      LET h1 == [task EXCEPT !.finished[m] = @ \ {t}]
          h2 == AddDependencies(h1, m, t, ds, 1)
      IN  IF h2.err # Ok THEN h2
          ELSE IF IsActive(h2, t)
          THEN [h2 EXCEPT !.activated[m] = @ \cup {t}]
          ELSE IF HasCapacity(h2, m)
          THEN LET h3 == [h2 EXCEPT !.activated[m] = @ \cup {t}]
                   h4 == [Run(h3, t, TRUE) EXCEPT !.err = Ok]
               IN  Emit(h4, <<"activated", t>>)
          ELSE IF Len(h2.pendingQueue[m]) >= MaxQueue
          THEN [h2 EXCEPT !.overflow = TRUE]
          ELSE [h2 EXCEPT !.pendingQueue[m] = Append(@, t)]

\* an assignment to the public field TuzkManager.concurrency
SetConcurrency(h, m, n) == [h EXCEPT !.concurrency[m] = n]

\* TuzkManager.waitForAll: the promise is resolved at once, or a listener
\* of onAllTasksFinished is added
WaitForAll(h, m) ==
    IF IsAllFinished(h, m) THEN Emit(h, <<"resolvedNow", m>>)
    ELSE IF h.waiters[m] >= MaxWaiters THEN [h EXCEPT !.overflow = TRUE]
    ELSE [h EXCEPT !.waiters[m] = @ + 1]

\* ------------------------------------------------------------- composite tasks
\* Tuzk.all, Tuzk.race and the class CompositeTuzk.  subtasks[c] is the list
\* of the children of the composite task c; runner[c] says which runner it
\* was built with: "all", "race", or "plain" for a task with a runner of its
\* own; promises[c][i] is the promise run() returned for the i-th child
\* when c was built: run is the index in runs of the child of the run() that
\* will settle it (0 once it is settled), val is "pending", the value it was
\* fulfilled with, or the error it was rejected with.  A run() of c whose
\* runner was invoked is a record with pc "runner" whose prom is the state of
\* the promise the runner awaits, Promise.all(promises) or
\* Promise.race(promises).
Errors == {CancelledError, InvalidStateError, NeverError, TuzkError, RunnerError}

\* tuzks.map((task) => task.run()), from the i-th child on: a run() of an
\* active child returns a promise rejected with InvalidStateError
RECURSIVE RunSubtasks(_, _, _, _)
RunSubtasks(h, c, ts, i) ==
    IF i > Len(ts) THEN h
    ELSE LET h1 == Run(h, ts[i], FALSE)
             p == IF h1.err # Ok THEN [run |-> 0, val |-> h1.err]
                  ELSE [run |-> Len(h1.runs[ts[i]]), val |-> "pending"]
         IN  RunSubtasks([h1 EXCEPT !.err = Ok, !.promises[c] = Append(@, p)], c, ts, i + 1)

\* Tuzk.all(tasks) / Tuzk.race(tasks): every child is run, then the
\* composite task is constructed with the children and the runner
NewComposite(h, c, ts, kind) ==
    LET h1 == RunSubtasks([h EXCEPT !.promises[c] = <<>>], c, ts, 1)
    IN  [h1 EXCEPT !.subtasks[c] = ts, !.runner[c] = kind]

\* Promise.all(ps): rejected with the first rejection (of promises rejected
\* already, the one first in the list), fulfilled once every promise is
PromiseAll(ps) ==
    LET bad == {i \in 1..Len(ps) : ps[i].val \in Errors}
    IN  IF bad # {} THEN ps[CHOOSE i \in bad : \A j \in bad : i <= j].val
        ELSE IF \A i \in 1..Len(ps) : ps[i].val # "pending" THEN "resolved"
        ELSE "pending"

\* Promise.race(ps): settled as the first promise to settle (of promises
\* settled already, the one first in the list)
PromiseRace(ps) ==
    LET done == {i \in 1..Len(ps) : ps[i].val # "pending"}
    IN  IF done = {} THEN "pending"
        ELSE ps[CHOOSE i \in done : \A j \in done : i <= j].val

\* the promise the runner of the composite task c awaits
RunnerPromise(h, c) ==
    IF h.runner[c] = "all" THEN PromiseAll(h.promises[c]) ELSE PromiseRace(h.promises[c])

\* the run() at index k of task t has ended and its promise is settled as
\* val: so is the promise a composite task holds for it, and with it the
\* promise that a runner of the composite task awaits
SettleSubtask(h, t, k, val) ==
    LET h1 == [h EXCEPT !.promises = [c \in Tasks |->
                   [i \in 1..Len(h.promises[c]) |->
                       IF h.subtasks[c][i] # t THEN h.promises[c][i]
                       ELSE IF h.promises[c][i].run = k THEN [run |-> 0, val |-> val]
                       ELSE IF h.promises[c][i].run > k
                       THEN [h.promises[c][i] EXCEPT !.run = @ - 1]
                       ELSE h.promises[c][i]]]]
    IN  [h1 EXCEPT !.runs = [c \in Tasks |->
            [j \in 1..Len(h1.runs[c]) |->
                IF /\ h1.runner[c] # "plain"
                   /\ h1.runs[c][j].pc = "runner"
                   /\ h1.runs[c][j].prom = "pending"
                THEN [h1.runs[c][j] EXCEPT !.prom = RunnerPromise(h1, c)]
                ELSE h1.runs[c][j]]]]

\* a job of the run() at index k of task t took the heap from h0 to h: if
\* the run() ended, its promise is settled as the job says
SubtaskJob(h0, h, t, k) ==
    IF Len(h.runs[t]) < Len(h0.runs[t])
    THEN SettleSubtask(h, t, k, h.log[Len(h.log)][3])
    ELSE h

\* tuzks.map((task) => task.getResult()), written as a string
RECURSIVE Results(_, _, _)
Results(h, ts, i) ==
    IF i > Len(ts) THEN "]"
    ELSE (IF i = 1 THEN "[" ELSE ",") \o h.result[ts[i]] \o Results(h, ts, i + 1)

\* the continuation of an await of a run() of the composite task c: after
\* checkpoint(0) the runner is invoked and awaits its promise; after that
\* promise the runner returns the results of the children (all) or the
\* value of the promise (race), or the rejection unwinds it
CompositeContinue(h, c, k) ==
    LET r == h.runs[c][k] IN
    IF r.pc = "runner"
    THEN IF r.prom \in Errors THEN RunCatch(h, c, k, r.prom)
         ELSE RunReturn(h, c, k, IF h.runner[c] = "all"
                                 THEN (IF h.subtasks[c] = <<>> THEN "[]"
                                       ELSE Results(h, h.subtasks[c], 1))
                                 ELSE r.prom)
    ELSE IF r.prom = "resolved"
    THEN [h EXCEPT !.runs[c][k] = [pc |-> "runner", prom |-> RunnerPromise(h, c)]]
    ELSE RunCatch(h, c, k, r.prom)

\* the loop of CompositeTuzk.pause / resume / cancel over the children, from
\* the i-th on; a call that throws ends it
RECURSIVE ForSubtasks(_, _, _, _)
ForSubtasks(h, c, op, i) ==
    IF h.err # Ok \/ i > Len(h.subtasks[c]) THEN h
    ELSE LET t == h.subtasks[c][i]
         IN  ForSubtasks(IF op = "pause" THEN Pause(h, t)
                         ELSE IF op = "resume" THEN Resume(h, t)
                         ELSE Cancel(h, t),
                         c, op, i + 1)

\* CompositeTuzk.pause
CompositePause(h, c) == ForSubtasks(Pause(h, c), c, "pause", 1)

\* CompositeTuzk.resume
CompositeResume(h, c) == ForSubtasks(Resume(h, c), c, "resume", 1)

\* CompositeTuzk.cancel
CompositeCancel(h, c) == ForSubtasks(Cancel(h, c), c, "cancel", 1)

\* ------------------------------------------------------------- the dependency-aware Tuzk
\* The class Tuzk of src/src/tuzk/index.ts.  Its tasks use the same fields
\* as above (checkPointPromiseAction is written checkpointPromiseControl),
\* and, in addition, dependenciesMap[t], the keys of the map in insertion
\* order, waitForDependenciesPromiseAction[t], the index in runs[t] of the
\* start() whose dependency promise it holds (0 for null, -1 once that
\* start() has ended), and onStateUpdated[d], the tasks whose dependency
\* listener is registered on d.  A start() in flight is a record of runs[t]
\* with pc "deps" while it awaits the dependency promise.  Its field job is
\* the place of its continuation in the job queue of the engine: when the
\* promise a start() awaits is settled, or is awaited settled, the
\* continuation is queued behind the continuations queued before it (job is
\* its rank, 1 for the head of the queue, 0 while nothing is queued).

\* the rank a continuation queued now gets
NextJob(h) ==
    LET js == {0} \cup UNION {{h.runs[u][i].job : i \in 1..Len(h.runs[u])} : u \in Tasks}
    IN  1 + (CHOOSE j \in js : \A i \in js : i <= j)

\* the promise the start() at index k awaits is settled as how
SettleRun(h, t, k, how) ==
    [h EXCEPT !.runs[t][k].prom = how, !.runs[t][k].job = NextJob(h)]

\* the engine takes the continuation of the start() at index k, the head of
\* the queue, off the queue
TakeJob(h, t, k) ==
    [h EXCEPT !.runs = [u \in Tasks |->
        [i \in 1..Len(h.runs[u]) |->
            [h.runs[u][i] EXCEPT !.job = IF u = t /\ i = k THEN 0
                                         ELSE IF @ > 0 THEN @ - 1 ELSE 0]]]]

\* Tuzk.addDependency of the dependency-aware Tuzk: the edge t -> d is
\* recorded in dependenciesMap of t unless it is there already, and the
\* listener of t is added to d.onStateUpdated
TuzkAddDependency(h, t, d) ==
    IF d \notin SeqRange(h.dependenciesMap[t])
    THEN [h EXCEPT !.dependenciesMap[t] = Append(@, d),
                   !.onStateUpdated[d] = @ \cup {t}]
    ELSE h

\* promiseAction.resolve / promiseAction.reject of the dependency promise of
\* the start() at index k: a settled promise stays as it is
SettleDependencies(h, t, k, how) ==
    IF k > 0 /\ h.runs[t][k].prom = "pending"
    THEN SettleRun(h, t, k, how)
    ELSE h

\* the value Tuzk.checkDependencies returns (isAllSucceed): every
\* dependency is finished
AllDependenciesFinished(h, t) ==
    \A i \in 1..Len(h.dependenciesMap[t]) :
        h.state[h.dependenciesMap[t][i]] \in {Success, Failed, Canceled}

\* Tuzk.checkDependencies(promiseAction), the promise being that of the
\* start() at index k: the loop rejects for every failed or cancelled
\* dependency, in the order of the map, so the first of them settles the
\* promise; then the promise is resolved if every dependency is finished
CheckDependencies(h, t, k) ==
    LET ds == h.dependenciesMap[t]
        bad == {i \in 1..Len(ds) : h.state[ds[i]] \in {Failed, Canceled}}
        h1 == IF bad = {} THEN h
              ELSE LET i == CHOOSE b \in bad : \A c \in bad : b <= c
                   IN  SettleDependencies(h, t, k,
                           IF h.state[ds[i]] = Failed
                           THEN TuzkDependencyFailedError(ds[i])
                           ELSE TuzkCanceledError)
    IN  IF AllDependenciesFinished(h, t)
        THEN SettleDependencies([h1 EXCEPT !.waitFor[t] = 0], t, k, "resolved")
        ELSE h1

\* Tuzk.setState of the dependency-aware Tuzk: on a change every listener
\* registered by a dependent u runs; it calls checkDependencies if u has a
\* waitForDependenciesPromiseAction and removes itself if that returns true.
\* (A listener touches the fields of its own task only; the listeners are
\* taken in the order of the task numbers.)
RECURSIVE Broadcast(_, _, _)
Broadcast(h, t, us) ==
    IF us = {} THEN h
    ELSE LET u == CHOOSE x \in us : \A y \in us : x <= y
             h1 == IF h.waitFor[u] = 0 THEN h
                   ELSE IF AllDependenciesFinished(h, u)
                   THEN [CheckDependencies(h, u, h.waitFor[u]) EXCEPT
                            !.onStateUpdated[t] = @ \ {u}]
                   ELSE CheckDependencies(h, u, h.waitFor[u])
         IN  Broadcast(h1, t, us \ {u})

TuzkSetState(h, t, s) ==
    IF h.state[t] = s THEN h
    ELSE Broadcast(Emit([h EXCEPT !.state[t] = s], <<"state", t, s, h.progress[t]>>),
                   t, h.onStateUpdated[t])

\* the promise executor of Tuzk.checkPoint for the start() at index k
TuzkCheckPoint(h, t, k, p) ==
    IF p # NoArg /\ ~ValidateProgress(p[1])
    THEN SettleRun(h, t, k, TuzkError)
    ELSE
      LET h1 == IF p # NoArg THEN [h EXCEPT !.progress[t] = p[1]] ELSE h
          h2 == [h1 EXCEPT !.control[t] = 0]
      IN  IF h2.shouldCancel[t]
          THEN SettleRun(TuzkSetState(h2, t, Canceled), t, k, TuzkCanceledError)
          ELSE IF h2.shouldPause[t]
          THEN [TuzkSetState(h2, t, Paused) EXCEPT !.control[t] = k, !.runs[t][k].prom = "pending"]
          ELSE SettleRun(TuzkSetState(h2, t, Running), t, k, "resolved")

\* Tuzk.start() up to its first await: the promise is rejected with
\* TuzkInvalidActionError if the state is Waiting, Running or Paused;
\* otherwise the executor of the dependency promise stores the promise
\* action and calls checkDependencies.  The state is not changed.
TuzkStart(h, t) ==
    IF h.state[t] \in {Waiting, Running, Paused}
    THEN [h EXCEPT !.err = TuzkInvalidActionError]
    ELSE IF Len(h.runs[t]) >= MaxRuns
    THEN [h EXCEPT !.overflow = TRUE]
    ELSE
      LET k == Len(h.runs[t]) + 1
          h1 == [h EXCEPT !.runs[t] = Append(@, [pc |-> "deps", prom |-> "pending", job |-> 0]),
                          !.waitFor[t] = k]
      IN  Emit(CheckDependencies(h1, t, k), <<"start", t>>)

\* the start() at index k of runs[t] ends
TuzkRemoveRun(h, t, k) ==
    [RemoveRun(h, t, k) EXCEPT
        !.waitFor[t] = IF @ = k THEN -1 ELSE IF @ > k THEN @ - 1 ELSE @]

\* catch and finally of Tuzk.start: the start() at index k ends with error e
TuzkCatch(h, t, k, e) ==
    LET h1 == [h EXCEPT !.error[t] = e]
        h2 == TuzkSetState(h1, t, IF e = TuzkCanceledError THEN Canceled ELSE Failed)
    IN  Emit(TuzkRemoveRun(Finally(h2, t), t, k), <<"rejected", t, e>>)

\* the normal end of Tuzk.start: the runner returned v
TuzkReturn(h, t, k, v) ==
    LET h1 == [h EXCEPT !.result[t] = v]
        h2 == [h1 EXCEPT !.progress[t] = ProgressOne]
        h3 == TuzkSetState(h2, t, Success)
    IN  Emit(TuzkRemoveRun(Finally(h3, t), t, k), <<"fulfilled", t, v>>)

\* the continuation of an await of Tuzk.start: after the dependency promise
\* it sets Running and calls checkPoint(0); after a checkpoint promise the
\* runner goes on; a rejection unwinds into the catch block
TuzkContinue(h, t, k) ==
    LET h0 == TakeJob(h, t, k)
    IN  IF h0.runs[t][k].prom # "resolved"
        THEN TuzkCatch(h0, t, k, h0.runs[t][k].prom)
        ELSE IF h0.runs[t][k].pc = "deps"
        THEN TuzkCheckPoint([TuzkSetState(h0, t, Running) EXCEPT !.runs[t][k].pc = "cp0"],
                            t, k, Arg(0))
        ELSE [h0 EXCEPT !.runs[t][k] = [pc |-> "runner", prom |-> "none", job |-> 0]]

\* ------------------------------------------------------------- actions
\* the state after construction of the tasks and the managers
Constructed ==
    /\ state = [t \in Tasks |-> Pending]
    /\ progress = [t \in Tasks |-> 0]
    /\ shouldPause = [t \in Tasks |-> FALSE]
    /\ shouldCancel = [t \in Tasks |-> FALSE]
    /\ checkpointPromiseControl = [t \in Tasks |-> 0]
    /\ result = [t \in Tasks |-> Undefined]
    /\ error = [t \in Tasks |-> Undefined]
    /\ runs = [t \in Tasks |-> <<>>]
    /\ manager = [t \in Tasks |-> 0]
    /\ dependencies = [t \in Tasks |-> {}]
    /\ listening = [t \in Tasks |-> FALSE]
    /\ pendingQueue = [m \in Managers |-> <<>>]
    /\ activated = [m \in Managers |-> {}]
    /\ finished = [m \in Managers |-> {}]
    /\ \E n \in 1..MaxConcurrency : concurrency = [m \in Managers |-> n]
    /\ waiters = [m \in Managers |-> 0]
    /\ dependenciesMap = [t \in Tasks |-> <<>>]
    /\ waitForDependenciesPromiseAction = [t \in Tasks |-> 0]
    /\ onStateUpdated = [t \in Tasks |-> {}]
    /\ subtasks = [t \in Tasks |-> <<>>]
    /\ promises = [t \in Tasks |-> <<>>]
    /\ runner = [t \in Tasks |-> "plain"]
    /\ ret = Ok
    /\ submitOrder = <<>>
    /\ startOrder = <<>>
    /\ resolution = "none"
    /\ call = <<>>
    /\ settled = [t \in Tasks |-> <<>>]
    /\ observed = [t \in Tasks |-> <<>>]
    /\ told = [t \in Tasks |-> {}]
    /\ toldPause = [t \in Tasks |-> {}]
    /\ progressHeard = <<>>
    /\ firstSettled = {}
    /\ announced = [t \in Tasks |-> <<0, 0>>]

\* History variables, kept for the properties only.  recording says which are
\* kept: "order" keeps submitOrder (the tasks submitted, in order) and
\* startOrder (the tasks the manager started, in order); "call" keeps call, the
\* latest call of the host or job of the event loop, ret, its outcome (Ok or
\* the error thrown), settled, how the promise of the latest ended run() of
\* each task was settled, and observed, the state and the progress the
\* listeners of onStateUpdated saw at the latest state change of each task,
\* and told, the runs in flight of each task (indices in runs) whose runner
\* was executing, or about to be resumed, when cancel() was called on the
\* Running task, and has not called checkpoint since, and toldPause, the
\* same for pause(), as long as neither resume() nor cancel() was called,
\* and progressHeard, the values onProgressUpdated broadcast during the latest call
\* if that was a call of setProgress().
\* recording "events" keeps announced: for each task, how many times the latest
\* step broadcast onTaskActivated and onTaskFinished with it.
\* firstSettled is always kept: the children of the composite tasks whose
\* run() promise, taken by Tuzk.all or Tuzk.race, was settled in the first
\* step that settled one of them.
\* resolution is always kept.  It says how the latest waitForAll()
\* promise was resolved: "now" by the call itself, "later" by a broadcast of
\* onAllTasksFinished; it is "bad", for ever, once a promise was resolved
\* while the queue or the active set was not empty, or was not resolved by
\* the call although both were empty.
Init == Constructed /\ recording = "none"

InitOrder == Constructed /\ recording = "order"

InitCall == Constructed /\ recording = "call"

InitEvents == Constructed /\ recording = "events"

\* the tasks whose run() the manager called and that entered Running, in order
ManagerStarts(log) ==
    LET s == SelectSeq(log, LAMBDA e : e[1] = "run" /\ e[3])
    IN  [i \in 1..Len(s) |-> s[i][2]]

\* the tasks submit was called with, in order
Submits(log) ==
    LET s == SelectSeq(log, LAMBDA e : e[1] = "submit")
    IN  [i \in 1..Len(s) |-> s[i][2]]

\* resolution after a step with this log
ResolutionAfter(log) ==
    LET rs == {i \in 1..Len(log) : log[i][1] = "resolved"} IN
    IF resolution = "bad" THEN "bad"
    ELSE IF \E i \in rs : log[i][3] # 0 \/ log[i][4] # 0 THEN "bad"
    ELSE IF rs # {} THEN "later"
    ELSE resolution

\* the last entry of kind for task t in the log, or old if there is none
LastEvent(log, kind, t, old) ==
    LET is == {i \in 1..Len(log) : log[i][1] \in kind /\ log[i][2] = t} IN
    IF is = {} THEN old
    ELSE LET e == log[CHOOSE i \in is : \A j \in is : j <= i]
         IN  IF e[1] = "state" THEN <<e[3], e[4]>> ELSE <<e[1], e[3]>>

\* the runs of task t that still have to reach a checkpoint after a call of
\* ask on the Running task, after the step to the heap h made by the call c;
\* old is that set before the step, a call of drop withdraws the request
Awaited(h, c, t, old, ask, drop) ==
    LET named == Len(c) >= 3 /\ c[1] \in {"continue", "checkpoint", "return", "throw"} /\ c[2] = t
        ended == named /\ Len(h.runs[t]) < Len(runs[t])
        asked == IF c = <<ask, t>> /\ state[t] = Running
                 THEN old \cup {k \in 1..Len(runs[t]) :
                                   runs[t][k].pc = "runner" \/ runs[t][k].prom = "resolved"}
                 ELSE IF c \in {<<d, t>> : d \in drop} THEN {}
                 ELSE old
        heard == IF named /\ c[1] = "checkpoint" THEN asked \ {c[3]} ELSE asked
    IN  IF ended
        THEN {IF j > c[3] THEN j - 1 ELSE j : j \in heard \ {c[3]}}
        ELSE heard

\* the children whose promise, held by a composite task, is settled in h
SettledChildren(h) ==
    UNION {{h.subtasks[c][i] : i \in {j \in 1..Len(h.promises[c]) :
                                          h.promises[c][j].val # "pending"}} : c \in Tasks}

\* the number of entries e in the log
Count(log, e) == Cardinality({i \in 1..Len(log) : log[i] = e})

\* announced after a step with this log
Announced(log) ==
    IF recording = "events"
    THEN [t \in Tasks |-> <<Count(log, <<"activated", t>>), Count(log, <<"finished", t>>)>>]
    ELSE announced

\* the step to the heap h, made by the call c
Step(h, c) ==
    /\ Commit(h)
    /\ resolution' = ResolutionAfter(h.log)
    /\ submitOrder' = IF recording = "order" THEN submitOrder \o Submits(h.log) ELSE submitOrder
    /\ startOrder' = IF recording = "order" THEN startOrder \o ManagerStarts(h.log) ELSE startOrder
    /\ call' = IF recording = "call" THEN c ELSE call
    /\ settled' = IF recording = "call"
                  THEN [t \in Tasks |-> LastEvent(h.log, {"rejected", "fulfilled"}, t, settled[t])]
                  ELSE settled
    /\ observed' = IF recording = "call"
                   THEN [t \in Tasks |-> LastEvent(h.log, {"state"}, t, observed[t])]
                   ELSE observed
    /\ told' = IF recording = "call"
               THEN [t \in Tasks |-> Awaited(h, c, t, told[t], "cancel", {})]
               ELSE told
    /\ toldPause' = IF recording = "call"
                    THEN [t \in Tasks |->
                             Awaited(h, c, t, toldPause[t], "pause", {"resume", "cancel"})]
                    ELSE toldPause
    /\ progressHeard' = IF recording = "call" /\ c # <<>> /\ c[1] = "setProgress"
                THEN SelectSeq(h.log, LAMBDA e : e[1] = "progress")
                ELSE IF recording = "call" THEN <<>> ELSE progressHeard
    /\ firstSettled' = IF firstSettled # {} THEN firstSettled ELSE SettledChildren(h)
    /\ announced' = Announced(h.log)
    /\ UNCHANGED recording

InFlight(t) == 1..Len(runs[t])

DoSubmit(m, t, ds) == Step(Submit(Heap, m, t, ds), <<"submit", m, t, ds>>)

DoAddDependency(m, t, d) == Step(AddDependency(Heap, m, t, d), <<"addDependency", m, t, d>>)

DoWaitForAll(m) ==
    LET h == WaitForAll(Heap, m)
        empty == pendingQueue[m] = <<>> /\ activated[m] = {}
        now == \E i \in 1..Len(h.log) : h.log[i][1] = "resolvedNow"
    IN  /\ Commit(h)
        /\ resolution' = IF resolution = "bad" \/ empty # now THEN "bad"
                         ELSE IF now THEN "now" ELSE resolution
        /\ call' = IF recording = "call" THEN <<"waitForAll", m>> ELSE call
        /\ progressHeard' = <<>>
        /\ announced' = Announced(h.log)
        /\ UNCHANGED <<submitOrder, startOrder, settled, observed, told, toldPause,
                       firstSettled, recording>>

DoRun(t) == Step(Run(Heap, t, FALSE), <<"run", t>>)

DoPause(t) == Step(Pause(Heap, t), <<"pause", t>>)

DoResume(t) == Step(Resume(Heap, t), <<"resume", t>>)

DoCancel(t) == Step(Cancel(Heap, t), <<"cancel", t>>)

DoContinue(t, k) ==
    /\ k \in InFlight(t)
    /\ runs[t][k].pc \in {"cp0", "cp"}
    /\ runs[t][k].prom # "pending"
    /\ Step(RunContinue(Heap, t, k), <<"continue", t, k>>)

DoCheckpoint(t, k, p) ==
    /\ k \in InFlight(t)
    /\ runs[t][k].pc = "runner"
    /\ Step(RunnerCheckpoint(Heap, t, k, p), <<"checkpoint", t, k, p>>)

DoReturn(t, k, v) ==
    /\ k \in InFlight(t)
    /\ runs[t][k].pc = "runner"
    /\ Step(RunReturn(Heap, t, k, v), <<"return", t, k, v>>)

DoThrow(t, k, e) ==
    /\ k \in InFlight(t)
    /\ runs[t][k].pc = "runner"
    /\ Step(RunCatch(Heap, t, k, e), <<"throw", t, k, e>>)

DoTuzkAddDependency(t, d) == Step(TuzkAddDependency(Heap, t, d), <<"Tuzk.addDependency", t, d>>)

Slots == 1..MaxRuns

FirstManager == CHOOSE m \in Managers : \A n \in Managers : m <= n

\* Tasks are interchangeable until the host uses them: it takes them in the
\* order of their numbers.
Touched(t) == manager[t] # 0 \/ state[t] # Pending
InOrder(t) == Touched(t) \/ \A u \in Tasks : u < t => Touched(u)

\* ------------------------------------------------------------- Spec
\* One manager and the host.  The host submits each task once, in whatever
\* state the task is, and may start a Pending task itself (before or after
\* submitting it); it pauses, resumes and cancels tasks and waits for the
\* manager.  The tasks of this specification are HostTasks.
HostTasks == 1..(NumTasks - 1)

DoSubmitOnce(m, t) == manager[t] = 0 /\ InOrder(t) /\ DoSubmit(m, t, <<>>)

DoRunPending(t) == state[t] = Pending /\ InOrder(t) /\ DoRun(t)

Next ==
    \/ \E t \in HostTasks : DoSubmitOnce(FirstManager, t)
    \/ DoWaitForAll(FirstManager)
    \/ \E t \in HostTasks : DoRunPending(t)
    \/ \E t \in HostTasks : DoPause(t)
    \/ \E t \in HostTasks : DoResume(t)
    \/ \E t \in HostTasks : DoCancel(t)
    \/ \E t \in HostTasks, k \in Slots : DoContinue(t, k)
    \/ \E t \in HostTasks, k \in Slots : DoCheckpoint(t, k, NoArg)
    \/ \E t \in HostTasks, k \in Slots : DoReturn(t, k, "v1")
    \/ \E t \in HostTasks, k \in Slots : DoThrow(t, k, RunnerError)

Spec == Init /\ [][Next]_vars

\* ------------------------------------------------------------- SpecBatch
\* A batch: the host submits every task at most once, as a new task without
\* dependencies, to one manager, and starts no task itself.
DoSubmitNew(m, t) ==
    /\ state[t] = Pending
    /\ manager[t] = 0
    /\ InOrder(t)
    /\ DoSubmit(m, t, <<>>)

NextBatch ==
    \/ \E t \in Tasks : DoSubmitNew(FirstManager, t)
    \/ DoWaitForAll(FirstManager)
    \/ \E t \in Tasks : DoPause(t)
    \/ \E t \in Tasks : DoResume(t)
    \/ \E t \in Tasks : DoCancel(t)
    \/ \E t \in Tasks, k \in Slots : DoContinue(t, k)
    \/ \E t \in Tasks, k \in Slots : DoCheckpoint(t, k, NoArg)
    \/ \E t \in Tasks, k \in Slots : DoReturn(t, k, "v1")
    \/ \E t \in Tasks, k \in Slots : DoThrow(t, k, RunnerError)

SpecBatch == InitOrder /\ [][NextBatch]_vars

\* the same batch, with the broadcasts of the manager recorded
SpecEvents == InitEvents /\ [][NextBatch]_vars

\* ------------------------------------------------------------- SpecTask
\* Tasks without a manager, with every call of Tuzk in every state: the host
\* runs a task (again and again), pauses, resumes and cancels it, and calls
\* checkpoint on a task that is not Running; the runners call checkpoint
\* with and without progress, in and out of range, return values and throw
\* errors, their own or a CancelledError.
SoloTasks == 1..(NumTasks - 2)

Progresses == {NoArg} \cup {Arg(p) : p \in 0..(ProgressOne + 1)}

Values == {"v1", "v2"}

Thrown == {RunnerError, CancelledError}

DoCheckpointCall(t, p) ==
    /\ state[t] # Running
    /\ Step(CheckpointCall(Heap, t, p), <<"checkpoint()", t, p>>)

NextTask ==
    \/ \E t \in SoloTasks : DoRun(t)
    \/ \E t \in SoloTasks : DoPause(t)
    \/ \E t \in SoloTasks : DoResume(t)
    \/ \E t \in SoloTasks : DoCancel(t)
    \/ \E t \in SoloTasks, p \in Progresses : DoCheckpointCall(t, p)
    \/ \E t \in SoloTasks, k \in Slots : DoContinue(t, k)
    \/ \E t \in SoloTasks, k \in Slots, p \in Progresses : DoCheckpoint(t, k, p)
    \/ \E t \in SoloTasks, k \in Slots, v \in Values : DoReturn(t, k, v)
    \/ \E t \in SoloTasks, k \in Slots, e \in Thrown : DoThrow(t, k, e)

SpecTask == InitCall /\ [][NextTask]_vars

\* ------------------------------------------------------------- SpecProgress
\* One task whose progress the host sets at any time, in any state, to any
\* number from below the range to above it, while the task runs, reports
\* progress at checkpoints, is cancelled, returns or throws.
ProgressValues == (0 - 1)..(ProgressOne + 1)

DoSetProgress(t, p) == Step(SetProgress(Heap, t, p), <<"setProgress", t, p>>)

NextProgress ==
    \/ \E t \in SoloTasks, p \in ProgressValues : DoSetProgress(t, p)
    \/ \E t \in SoloTasks : DoRun(t)
    \/ \E t \in SoloTasks : DoCancel(t)
    \/ \E t \in SoloTasks, k \in Slots : DoContinue(t, k)
    \/ \E t \in SoloTasks, k \in Slots, p \in Progresses : DoCheckpoint(t, k, p)
    \/ \E t \in SoloTasks, k \in Slots, v \in Values : DoReturn(t, k, v)
    \/ \E t \in SoloTasks, k \in Slots, e \in Thrown : DoThrow(t, k, e)

SpecProgress == InitCall /\ [][NextProgress]_vars

\* ------------------------------------------------------------- SpecStart
\* Dependency-aware tasks: the last task is wired to the others by
\* Tuzk.addDependency, in any order, before anything is started; then the
\* host starts the tasks in any order, each dependency once and the
\* dependent any number of times; the runners return, or throw an error of
\* their own or a TuzkCanceledError.
Dependent == NumTasks

TuzkThrown == {RunnerError, TuzkCanceledError}

DoWire(d) ==
    /\ \A t \in Tasks : state[t] = Pending /\ runs[t] = <<>>
    /\ d \notin SeqRange(dependenciesMap[Dependent])
    /\ DoTuzkAddDependency(Dependent, d)

DoStart(t) == Step(TuzkStart(Heap, t), <<"Tuzk.start", t>>)

DoStartOnce(t) == state[t] = Pending /\ runs[t] = <<>> /\ DoStart(t)

DoTuzkContinue(t, k) ==
    /\ k \in InFlight(t)
    /\ runs[t][k].pc \in {"deps", "cp0", "cp"}
    /\ runs[t][k].job = 1
    /\ Step(TuzkContinue(Heap, t, k), <<"Tuzk.continue", t, k>>)

DoTuzkReturn(t, k) ==
    /\ k \in InFlight(t)
    /\ runs[t][k].pc = "runner"
    /\ Step(TuzkReturn(Heap, t, k, "v1"), <<"Tuzk.return", t, k>>)

DoTuzkThrow(t, k, e) ==
    /\ k \in InFlight(t)
    /\ runs[t][k].pc = "runner"
    /\ Step(TuzkCatch(Heap, t, k, e), <<"Tuzk.throw", t, k, e>>)

NextStart ==
    \/ \E d \in HostTasks : DoWire(d)
    \/ \E t \in HostTasks : DoStartOnce(t)
    \/ DoStart(Dependent)
    \/ \E t \in Tasks, k \in Slots : DoTuzkContinue(t, k)
    \/ \E t \in Tasks, k \in Slots : DoTuzkReturn(t, k)
    \/ \E t \in Tasks, k \in Slots, e \in TuzkThrown : DoTuzkThrow(t, k, e)

InitStart == InitCall /\ concurrency = [m \in Managers |-> 1]

SpecStart == InitStart /\ [][NextStart]_vars

\* ------------------------------------------------------------- SpecRetry
\* The same with one dependency, which the host starts again once no
\* start() of it is in flight.
DoRetry(t) == runs[t] = <<>> /\ DoStart(t)

NextRetry ==
    \/ DoWire(1)
    \/ DoRetry(1)
    \/ DoStart(Dependent)
    \/ \E t \in {1, Dependent}, k \in Slots : DoTuzkContinue(t, k)
    \/ \E t \in {1, Dependent}, k \in Slots : DoTuzkReturn(t, k)
    \/ \E t \in {1, Dependent}, k \in Slots, e \in TuzkThrown : DoTuzkThrow(t, k, e)

SpecRetry == InitStart /\ [][NextRetry]_vars

\* ------------------------------------------------------------- SpecComposite
\* Composite tasks: the host may run the plain tasks first, then builds the
\* last task from a list of them with Tuzk.all or Tuzk.race; it runs the
\* composite task once and pauses, resumes and cancels it at any time; the runners
\* of the children call checkpoint(), return a value or throw.
Composite == NumTasks

SubtaskLists ==
    {ts \in UNION {[1..n -> HostTasks] : n \in 1..(NumTasks - 1)} :
        \A i, j \in 1..Len(ts) : i # j => ts[i] # ts[j]}

ValueOf(t) == "v" \o ToString(t)

DoRunFirst(t) ==
    /\ runner[Composite] = "plain"
    /\ state[t] = Pending
    /\ DoRun(t)

DoAll(ts) ==
    /\ runner[Composite] = "plain"
    /\ Step(NewComposite(Heap, Composite, ts, "all"), <<"Tuzk.all", ts>>)

DoRace(ts) ==
    /\ runner[Composite] = "plain"
    /\ Step(NewComposite(Heap, Composite, ts, "race"), <<"Tuzk.race", ts>>)

DoRunComposite(c) == runner[c] # "plain" /\ state[c] = Pending /\ DoRun(c)

DoCompositePause(c) ==
    runner[c] # "plain" /\ Step(CompositePause(Heap, c), <<"Composite.pause", c>>)

DoCompositeResume(c) ==
    runner[c] # "plain" /\ Step(CompositeResume(Heap, c), <<"Composite.resume", c>>)

DoCompositeCancel(c) ==
    runner[c] # "plain" /\ Step(CompositeCancel(Heap, c), <<"Composite.cancel", c>>)

DoCompositeContinue(c, k) ==
    /\ runner[c] # "plain"
    /\ k \in InFlight(c)
    /\ runs[c][k].prom \notin {"none", "pending"}
    /\ Step(CompositeContinue(Heap, c, k), <<"continue", c, k>>)

DoSubtaskContinue(t, k) ==
    /\ k \in InFlight(t)
    /\ runs[t][k].pc \in {"cp0", "cp"}
    /\ runs[t][k].prom # "pending"
    /\ Step(SubtaskJob(Heap, RunContinue(Heap, t, k), t, k), <<"continue", t, k>>)

DoSubtaskCheckpoint(t, k) ==
    /\ k \in InFlight(t)
    /\ runs[t][k].pc = "runner"
    /\ Step(SubtaskJob(Heap, RunnerCheckpoint(Heap, t, k, NoArg), t, k),
            <<"checkpoint", t, k, NoArg>>)

DoSubtaskReturn(t, k) ==
    /\ k \in InFlight(t)
    /\ runs[t][k].pc = "runner"
    /\ Step(SubtaskJob(Heap, RunReturn(Heap, t, k, ValueOf(t)), t, k),
            <<"return", t, k, ValueOf(t)>>)

DoSubtaskThrow(t, k) ==
    /\ k \in InFlight(t)
    /\ runs[t][k].pc = "runner"
    /\ Step(SubtaskJob(Heap, RunCatch(Heap, t, k, RunnerError), t, k),
            <<"throw", t, k, RunnerError>>)

NextComposite ==
    \/ \E t \in HostTasks : DoRunFirst(t)
    \/ \E ts \in SubtaskLists : DoAll(ts)
    \/ \E ts \in SubtaskLists : DoRace(ts)
    \/ DoRunComposite(Composite)
    \/ DoCompositePause(Composite)
    \/ DoCompositeResume(Composite)
    \/ DoCompositeCancel(Composite)
    \/ \E k \in Slots : DoCompositeContinue(Composite, k)
    \/ \E t \in HostTasks, k \in Slots : DoSubtaskContinue(t, k)
    \/ \E t \in HostTasks, k \in Slots : DoSubtaskCheckpoint(t, k)
    \/ \E t \in HostTasks, k \in Slots : DoSubtaskReturn(t, k)
    \/ \E t \in HostTasks, k \in Slots : DoSubtaskThrow(t, k)

SpecComposite == InitStart /\ [][NextComposite]_vars

\* ------------------------------------------------------------- SpecResubmit
\* One manager whose concurrency the host changes at any time; the host
\* submits the tasks, without dependencies, any number of times and in any
\* state; the runners return or throw.
DoSubmitAgain(m, t) == InOrder(t) /\ DoSubmit(m, t, <<>>)

DoSetConcurrency(m, n) ==
    /\ concurrency[m] # n
    /\ Step(SetConcurrency(Heap, m, n), <<"concurrency", m, n>>)

NextResubmit ==
    \/ \E t \in HostTasks : DoSubmitAgain(FirstManager, t)
    \/ \E n \in 1..MaxConcurrency : DoSetConcurrency(FirstManager, n)
    \/ \E t \in HostTasks, k \in Slots : DoContinue(t, k)
    \/ \E t \in HostTasks, k \in Slots : DoReturn(t, k, "v1")
    \/ \E t \in HostTasks, k \in Slots : DoThrow(t, k, RunnerError)

SpecResubmit == InitCall /\ [][NextResubmit]_vars

\* ------------------------------------------------------------- SpecDeps
\* One manager and tasks submitted once each, now with dependency lists; the
\* runners return or throw, the host may cancel.
DepLists == UNION {[1..n -> Tasks] : n \in 0..MaxDeps}

Submitted(t) == t \in SeqRange(submitOrder)

DoSubmitDeps(m, t, ds) ==
    /\ state[t] = Pending
    /\ ~Submitted(t)
    /\ InOrder(t)
    /\ DoSubmit(m, t, ds)

DoAddDependencyInOrder(m, t, d) == InOrder(t) /\ DoAddDependency(m, t, d)

NextDeps ==
    \/ \E t \in Tasks, ds \in DepLists : DoSubmitDeps(FirstManager, t, ds)
    \/ DoWaitForAll(FirstManager)
    \/ \E t \in Tasks : DoCancel(t)
    \/ \E t \in Tasks, k \in Slots : DoContinue(t, k)
    \/ \E t \in Tasks, k \in Slots : DoReturn(t, k, "v1")
    \/ \E t \in Tasks, k \in Slots : DoThrow(t, k, RunnerError)

SpecDeps == InitOrder /\ [][NextDeps]_vars

\* ------------------------------------------------------------- SpecGraph
\* Two managers, in one synchronous block of host calls (no continuation of a
\* run gets its turn): tasks are handed to either manager by submit (while
\* Pending and not queued there) and by addDependency.
DoSubmitPending(m, t, ds) ==
    /\ state[t] = Pending
    /\ t \notin SeqRange(pendingQueue[m])
    /\ InOrder(t)
    /\ DoSubmit(m, t, ds)

NextGraph ==
    \/ \E m \in Managers, t \in Tasks, ds \in DepLists : DoSubmitPending(m, t, ds)
    \/ \E m \in Managers, t, d \in Tasks : DoAddDependencyInOrder(m, t, d)

SpecGraph == InitCall /\ [][NextGraph]_vars

\* ------------------------------------------------------------- SpecWiring
\* One manager, in one synchronous block of host calls: dependencies are
\* recorded through the manager (submit, addDependency) and directly through
\* Tuzk.addDependency.
NextWiring ==
    \/ \E t \in Tasks, ds \in DepLists : DoSubmitPending(FirstManager, t, ds)
    \/ \E t, d \in Tasks : DoAddDependencyInOrder(FirstManager, t, d)
    \/ \E t, d \in HostTasks : DoTuzkAddDependency(t, d)

SpecWiring == Init /\ [][NextWiring]_vars

\* ------------------------------------------------------------- fairness
\* The event loop runs the continuation of a run whose checkpoint promise was
\* resolved.  The environment is assumed to let every started run end: its
\* runner returns or throws, and a task the host has paused is resumed or
\* cancelled.
ContinueResolved(t) ==
    \E k \in Slots :
        /\ k \in InFlight(t)
        /\ runs[t][k].prom = "resolved"
        /\ DoContinue(t, k)

EveryRunEnds(t) == []<>(runs[t] = <<>>)

Fairness ==
    \A t \in Tasks :
        /\ WF_vars(ContinueResolved(t))
        /\ EveryRunEnds(t)

FairBatch == InitOrder /\ [][NextBatch]_vars /\ Fairness

FairDeps == InitOrder /\ [][NextDeps]_vars /\ Fairness

\* ------------------------------------------------------------- properties
IsPrefix(s, u) == Len(s) <= Len(u) /\ \A i \in 1..Len(s) : s[i] = u[i]

\* C1: the number of tasks in a manager's active set never exceeds the
\* manager's concurrency limit.
C1_ActiveWithinLimit ==
    \A m \in Managers : Cardinality(activated[m]) <= concurrency[m]

\* C2: in a batch, whenever the pending queue is not empty the active set
\* holds exactly N tasks and the queued tasks are Pending; a submit call
\* starts its task when fewer than N tasks are active and queues it, still
\* Pending, otherwise.
C2_QueueImpliesFull ==
    \A m \in Managers :
        /\ pendingQueue[m] # <<>> => Cardinality(activated[m]) = concurrency[m]
        /\ \A i \in 1..Len(pendingQueue[m]) : state[pendingQueue[m][i]] = Pending

C2_SubmitStep ==
    \A t \in Tasks :
        submitOrder' = Append(submitOrder, t) =>
            LET m == FirstManager IN
            IF Cardinality(activated[m]) < concurrency[m]
            THEN /\ state'[t] = Running
                 /\ activated'[m] = activated[m] \cup {t}
                 /\ pendingQueue'[m] = pendingQueue[m]
            ELSE /\ state'[t] = Pending
                 /\ activated'[m] = activated[m]
                 /\ pendingQueue'[m] = Append(pendingQueue[m], t)

C2_BatchAdmission == [](C2_QueueImpliesFull) /\ [][C2_SubmitStep]_vars

\* a task was queued behind a full active set and an earlier task finished
C2_Witness ==
    /\ Len(submitOrder) = NumTasks
    /\ pendingQueue[FirstManager] # <<>>
    /\ finished[FirstManager] # {}
    /\ Cardinality(activated[FirstManager]) = concurrency[FirstManager]

\* C3: admission is FIFO: the tasks enter Running in the order of their
\* submission, and the pending queue holds, in that order, the submitted
\* tasks that were not started yet.
C3_Fifo ==
    /\ IsPrefix(startOrder, submitOrder)
    /\ pendingQueue[FirstManager] =
          SubSeq(submitOrder, Len(startOrder) + 1, Len(submitOrder))

\* every task was started, and all but the first by an admission sweep
C3_Witness ==
    /\ Len(startOrder) = NumTasks
    /\ concurrency[FirstManager] = 1

\* C4: a waitForAll() promise is resolved only when the pending queue and the
\* active set are both empty: by the call itself when they are empty at the
\* call, and otherwise as soon as both are empty (no promise is left
\* unresolved in a state in which both are empty).
C4_WaitForAll ==
    /\ resolution # "bad"
    /\ \A m \in Managers :
          waiters[m] > 0 => ~(pendingQueue[m] = <<>> /\ activated[m] = {})

\* a promise that had to wait was resolved by the broadcast
C4_Witness ==
    /\ resolution = "later"
    /\ waiters[FirstManager] = 0
    /\ finished[FirstManager] # {}

\* there is a path of recorded dependencies from a to b (g maps a task to the
\* set of its dependencies)
RECURSIVE ReachSet(_, _, _)
ReachSet(g, S, n) ==
    IF n = 0 THEN S ELSE ReachSet(g, S \cup UNION {g[x] : x \in S}, n - 1)

Reachable(g, a, b) == b \in ReachSet(g, g[a], NumTasks)

Acyclic(g) == \A t \in Tasks : ~Reachable(g, t, t)

\* C5: when every ready continuation runs and every started run eventually
\* ends (its runner returns, throws or is cancelled), every submitted task eventually reaches a terminal state and every
\* pending waitForAll() is eventually resolved; a task that ended, in whatever
\* terminal state, is in the finished set and not in the active set.
C5_FinishedFreesSlot ==
    \A t \in Tasks :
        Submitted(t) /\ IsFinishedState(state[t]) =>
            /\ t \in finished[FirstManager]
            /\ t \notin activated[FirstManager]

C6_StartStep ==
    \A i \in (Len(startOrder) + 1)..Len(startOrder') :
        \A d \in dependencies'[startOrder'[i]] : state'[d] = Success

C6_DependenciesFirst == [][C6_StartStep]_vars

\* C7: when every started run eventually ends, a task waiting in the pending queue with a
\* dependency that is Failed or Cancelled eventually reaches a terminal state
\* itself, and every pending waitForAll() is eventually resolved.
DependencyLost(t) ==
    /\ t \in SeqRange(pendingQueue[FirstManager])
    /\ \E d \in dependencies[t] : state[d] \in {Failed, Cancelled}

C7_FailurePropagates ==
    /\ \A t \in Tasks : DependencyLost(t) ~> IsFinishedState(state[t])
    /\ \A m \in Managers : (waiters[m] > 0) ~> (waiters[m] = 0)

\* C8: an addDependency(task, dep) call with dep = task, or with task
\* reachable from dep through the recorded dependencies, raises the error and
\* leaves no edge from task to dep.
C8_ClosingStep ==
    \A m \in Managers, t, d \in Tasks :
        /\ call' = <<"addDependency", m, t, d>>
        /\ d = t \/ Reachable(dependencies, d, t)
        => /\ ret' = ManagerError
           /\ d \notin dependencies'[t]

C8_CycleRejected == [][C8_ClosingStep]_vars

\* the edge closing a loop of length three was just refused
C8_Witness ==
    \E m \in Managers, t, d, u \in Tasks :
        /\ call = <<"addDependency", m, t, d>>
        /\ ret = ManagerError
        /\ t # d /\ d # u /\ u # t
        /\ u \in dependencies[d]
        /\ t \in dependencies[u]

\* C9: the dependencies recorded by the manager and those recorded by
\* Tuzk.addDependency form acyclic graphs.
C9_Acyclic ==
    /\ Acyclic(dependencies)
    /\ Acyclic([t \in Tasks |-> SeqRange(dependenciesMap[t])])

\* C10: a rejected addDependency or submit call leaves every task with the
\* dependencies it had before the call.
C10_RejectedStep ==
    /\ call'[1] \in {"addDependency", "submit"}
    /\ ret' = ManagerError
    => dependencies' = dependencies

C10_RejectedKeepsState == [][C10_RejectedStep]_vars

\* C11: submit(task) on a manager other than the one that owns the task
\* raises the error, leaves that manager's queue, active set and finished set
\* as they were, starts no run of the task, and leaves the task with its owner.
C11_ForeignSubmitStep ==
    \A m \in Managers, t \in Tasks, ds \in DepLists :
        /\ call' = <<"submit", m, t, ds>>
        /\ manager[t] \notin {0, m}
        => /\ ret' = ManagerError
           /\ pendingQueue'[m] = pendingQueue[m]
           /\ activated'[m] = activated[m]
           /\ finished'[m] = finished[m]
           /\ runs' = runs
           /\ state' = state
           /\ manager' = manager

C11_OneOwner == [][C11_ForeignSubmitStep]_vars

\* a task queued by one manager was just refused by another
C11_Witness ==
    \E m \in Managers, t \in Tasks, ds \in DepLists :
        /\ call = <<"submit", m, t, ds>>
        /\ ret = ManagerError
        /\ manager[t] \notin {0, m}
        /\ t \in SeqRange(pendingQueue[manager[t]])

\* what a refused call on task t must leave alone
TaskUntouched(t) ==
    /\ state'[t] = state[t]
    /\ progress'[t] = progress[t]
    /\ shouldPause'[t] = shouldPause[t]
    /\ shouldCancel'[t] = shouldCancel[t]

\* C12: a task in Success, Failed or Cancelled never changes its state again.
C12_TerminalStep ==
    \A t \in Tasks : IsFinishedState(state[t]) => state'[t] = state[t]

C12_TerminalPermanent == [][C12_TerminalStep]_vars

\* C13: run() on a Running or Paused task fails with InvalidStateError,
\* starts no run, and leaves state, progress, result, error, both flags and
\* the runs in flight as they were.
C13_RunActiveStep ==
    \A t \in Tasks :
        call' = <<"run", t>> /\ IsActiveState(state[t])
        => /\ ret' = InvalidStateError
           /\ TaskUntouched(t)
           /\ result'[t] = result[t]
           /\ error'[t] = error[t]
           /\ runs'[t] = runs[t]
           /\ checkpointPromiseControl'[t] = checkpointPromiseControl[t]

C13_RunWhileActive == [][C13_RunActiveStep]_vars

\* run() was just refused on a task whose run is parked in Paused
C13_Witness ==
    \E t \in Tasks :
        /\ call = <<"run", t>>
        /\ ret = InvalidStateError
        /\ state[t] = Paused
        /\ Len(runs[t]) = 1
        /\ runs[t][1].prom = "pending"

\* C14: pause() and resume() raise nothing on a Running or Paused task and
\* cancel() raises nothing on a Running, Paused or Cancelled one; in every
\* other state the call raises InvalidStateError and leaves state, progress
\* and both flags alone; cancel() on a Cancelled task leaves it Cancelled.
C14_ControlStep ==
    \A t \in Tasks :
        /\ call' \in {<<"pause", t>>, <<"resume", t>>} =>
              IF IsActiveState(state[t]) THEN ret' = Ok
              ELSE ret' = InvalidStateError /\ TaskUntouched(t)
        /\ call' = <<"cancel", t>> =>
              IF state[t] \in {Running, Paused, Cancelled}
              THEN ret' = Ok /\ (state[t] = Cancelled => state'[t] = Cancelled)
              ELSE ret' = InvalidStateError /\ TaskUntouched(t)

C15_CheckpointStep ==
    \A t \in Tasks, p \in Progresses :
        call' = <<"checkpoint()", t, p>> /\ state[t] # Running
        => /\ ret' = InvalidStateError
           /\ TaskUntouched(t)
           /\ checkpointPromiseControl'[t] = checkpointPromiseControl[t]
           /\ runs'[t] = runs[t]

C15_CheckpointOnlyRunning == [][C15_CheckpointStep]_vars

\* checkpoint() was just refused on a task parked in Paused
C15_Witness ==
    \E t \in Tasks, p \in Progresses :
        /\ call = <<"checkpoint()", t, p>>
        /\ ret = InvalidStateError
        /\ state[t] = Paused
        /\ checkpointPromiseControl[t] > 0

\* C16: when cancel() was called on a Running task, the next checkpoint its
\* runner calls (with a progress in range, or none) is rejected with
\* CancelledError and leaves the task Cancelled; a run whose checkpoint was
\* rejected with CancelledError goes on in its catch block only: the task is
\* Cancelled, task.error is the CancelledError and the promise of run() is
\* rejected with it.
InRange(p) == p = NoArg \/ ValidateProgress(p[1])

C16_CheckpointStep ==
    \A t \in Tasks, k \in Slots, p \in Progresses :
        call' = <<"checkpoint", t, k, p>> /\ k \in told[t] /\ InRange(p)
        => /\ state'[t] = Cancelled
           /\ Len(runs'[t]) = Len(runs[t])
           /\ runs'[t][k] = [pc |-> "cp", prom |-> CancelledError]

C16_UnwindStep ==
    \A t \in Tasks, k \in Slots :
        /\ call' = <<"continue", t, k>>
        /\ runs[t][k] = [pc |-> "cp", prom |-> CancelledError]
        => /\ state'[t] = Cancelled
           /\ error'[t] = CancelledError
           /\ settled'[t] = <<"rejected", CancelledError>>
           /\ Len(runs'[t]) = Len(runs[t]) - 1

C16_CancelAtCheckpoint == [][C16_CheckpointStep /\ C16_UnwindStep]_vars

\* C17: cancel() on a task parked in Paused (checkpointPromiseControl holds
\* the pending promise of the checkpoint its runner awaits) returns normally
\* and rejects that promise with CancelledError in the same call; with no
\* resume() call, the only step that run makes afterwards is into its catch
\* block, never back into the runner: it leaves the task Cancelled with
\* task.error the CancelledError and the promise of run() rejected with it.
Parked(t, k) ==
    /\ state[t] = Paused
    /\ checkpointPromiseControl[t] = k
    /\ k \in 1..Len(runs[t])
    /\ runs[t][k] = [pc |-> "cp", prom |-> "pending"]

ParkedRejected(t, k) ==
    /\ state[t] = Paused
    /\ checkpointPromiseControl[t] = k
    /\ k \in 1..Len(runs[t])
    /\ runs[t][k] = [pc |-> "cp", prom |-> CancelledError]

StepsOfRun(t, k) ==
    {<<"continue", t, k>>} \cup {<<"checkpoint", t, k, p>> : p \in Progresses}
        \cup {<<"return", t, k, v>> : v \in Values}
        \cup {<<"throw", t, k, e>> : e \in Thrown}

C17_CancelStep ==
    \A t \in Tasks, k \in Slots :
        call' = <<"cancel", t>> /\ Parked(t, k)
        => /\ ret' = Ok
           /\ runs'[t] = [runs[t] EXCEPT ![k].prom = CancelledError]

C17_UnwindStep ==
    \A t \in Tasks, k \in Slots :
        ParkedRejected(t, k) /\ call' \in StepsOfRun(t, k)
        => /\ call' = <<"continue", t, k>>
           /\ state'[t] = Cancelled
           /\ error'[t] = CancelledError
           /\ settled'[t] = <<"rejected", CancelledError>>
           /\ Len(runs'[t]) = Len(runs[t]) - 1

C17_CancelParked == [][C17_CancelStep /\ C17_UnwindStep]_vars

\* cancel() has just rejected the checkpoint of a parked run
C17_Witness ==
    \E t \in Tasks, k \in Slots :
        /\ call = <<"cancel", t>>
        /\ ret = Ok
        /\ ParkedRejected(t, k)

\* C18: pause() on a Running task leaves it Running; the next checkpoint of
\* its runner (with a progress in range or none, no cancel() requested, and
\* neither resume() nor cancel() called since the pause()) moves the task to
\* Paused and stays pending; a pending checkpoint is settled by resume() or
\* cancel() only, and the run that awaits it makes no step before; resume()
\* on a task parked in Paused sets the state to Running and resolves the
\* parked checkpoint in the same call; a runner that returns leaves the
\* task in Success.
C18_PauseStep ==
    \A t \in Tasks :
        call' = <<"pause", t>> /\ state[t] = Running
        => ret' = Ok /\ state'[t] = Running /\ runs'[t] = runs[t]

C18_CheckpointStep ==
    \A t \in Tasks, k \in Slots, p \in Progresses :
        /\ call' = <<"checkpoint", t, k, p>>
        /\ k \in toldPause[t] \ told[t]
        /\ InRange(p)
        => /\ state'[t] = Paused
           /\ Len(runs'[t]) = Len(runs[t])
           /\ runs'[t][k] = [pc |-> "cp", prom |-> "pending"]
           /\ checkpointPromiseControl'[t] = k

C18_ParkedStep ==
    \A t \in Tasks, k \in Slots :
        k \in 1..Len(runs[t]) /\ runs[t][k].prom = "pending"
        => /\ call' \notin StepsOfRun(t, k)
           /\ \/ call' \in {<<"resume", t>>, <<"cancel", t>>}
              \/ \E j \in 1..Len(runs'[t]) : j \in {k - 1, k} /\ runs'[t][j] = runs[t][k]

C18_ResumeStep ==
    \A t \in Tasks, k \in Slots :
        call' = <<"resume", t>> /\ Parked(t, k)
        => /\ ret' = Ok
           /\ state'[t] = Running
           /\ runs'[t] = [runs[t] EXCEPT ![k].prom = "resolved"]

C18_ReturnStep ==
    \A t \in Tasks, k \in Slots, v \in Values :
        call' = <<"return", t, k, v>> => state'[t] = Success

C18_PauseResume ==
    [][C18_PauseStep /\ C18_CheckpointStep /\ C18_ParkedStep /\ C18_ResumeStep
         /\ C18_ReturnStep]_vars

\* C19: when the runner of a run returns a value v, the task is in Success
\* with progress 1.0 and result v, the promise of that run() is fulfilled
\* with v, and the listeners of the state change to Success (there is one
\* unless the task was in Success already) saw progress 1.0, whatever the
\* progress was before.
C19_ReturnStep ==
    \A t \in Tasks, k \in Slots, v \in Values :
        call' = <<"return", t, k, v>>
        => /\ state'[t] = Success
           /\ progress'[t] = ProgressOne
           /\ result'[t] = v
           /\ settled'[t] = <<"fulfilled", v>>
           /\ state[t] # Success => observed'[t] = <<Success, ProgressOne>>
           /\ Len(runs'[t]) = Len(runs[t]) - 1

C19_SeenStep ==
    \A t \in Tasks :
        observed'[t] # <<>> /\ observed'[t][1] = Success => observed'[t][2] = ProgressOne

C19_NormalReturn == [][C19_ReturnStep /\ C19_SeenStep]_vars

\* a runner has just returned v2 and the listeners saw Success with 1.0
C19_Witness ==
    \E t \in Tasks, k \in Slots :
        /\ call = <<"return", t, k, "v2">>
        /\ state[t] = Success
        /\ progress[t] = ProgressOne
        /\ result[t] = "v2"
        /\ settled[t] = <<"fulfilled", "v2">>
        /\ observed[t] = <<Success, ProgressOne>>

\* C20: a run that ends with an error e leaves task.error = e, the state
\* Cancelled if e is a CancelledError and Failed otherwise, and the promise
\* of that run() rejected with e; in every state a task with a result is in
\* Success and a task with an error is in Failed or Cancelled.
C20_CatchStep ==
    \A t \in Tasks, k \in Slots :
        /\ call' \in StepsOfRun(t, k)
        /\ Len(runs'[t]) < Len(runs[t])
        /\ call'[1] # "return"
        => \E e \in {CancelledError, InvalidStateError, TuzkError, RunnerError} :
              /\ error'[t] = e
              /\ state'[t] = IF e = CancelledError THEN Cancelled ELSE Failed
              /\ settled'[t] = <<"rejected", e>>
              /\ call'[1] = "throw" => e = call'[4]

C20_PresenceStep ==
    \A t \in Tasks :
        /\ result'[t] # Undefined => state'[t] = Success
        /\ error'[t] # Undefined => state'[t] \in {Failed, Cancelled}

C20_ErrorEnd == [][C20_CatchStep /\ C20_PresenceStep]_vars

\* C21: setProgress(p) with p in [0.0, 1.0] returns normally and leaves
\* progress = p, whether p is above or below the progress before; with p
\* below 0.0 or above 1.0 it raises TuzkError, leaves the progress as it was
\* and onProgressUpdated broadcasts nothing.
C21_SetProgressStep ==
    \A t \in Tasks, p \in ProgressValues :
        call' = <<"setProgress", t, p>>
        => IF 0 <= p /\ p <= ProgressOne
           THEN ret' = Ok /\ progress'[t] = p
           ELSE ret' = TuzkError /\ progress'[t] = progress[t] /\ progressHeard' = <<>>

C21_SetProgress == [][C21_SetProgressStep]_vars

\* setProgress(0.0) has just lowered the progress of a task: the broadcast
\* of 0.0 shows that the progress was above it
C21_Witness ==
    \E t \in Tasks :
        /\ call = <<"setProgress", t, 0>>
        /\ ret = Ok
        /\ progress[t] = 0
        /\ progressHeard = <<(<<"progress", t, 0>>)>>

\* C22: in every state, a task in Success, Failed or Cancelled has neither
\* flag set: isMarkedAsPaused() and isMarkedAsCancelled() are false.
C22_FinishedUnmarked ==
    \A t \in Tasks :
        IsFinishedState(state[t]) => ~shouldPause[t] /\ ~shouldCancel[t]

\* C23: in every state, checkpointPromiseControl of a task is non-null if
\* and only if the task is Paused, and at most one checkpoint promise of the
\* task is pending.
C23_ControlIffPaused ==
    \A t \in Tasks :
        /\ checkpointPromiseControl[t] # 0 <=> state[t] = Paused
        /\ Cardinality({k \in 1..Len(runs[t]) : runs[t][k].prom = "pending"}) <= 1

\* C24: the dependency promise of a start() of a dependent is rejected with
\* a TuzkDependencyFailedError naming a Failed dependency if some dependency
\* is Failed, and with TuzkCanceledError if none is Failed and one is
\* Canceled, whatever the state of the other dependencies: by start()
\* itself for the dependencies finished before, and for a pending promise
\* in the step in which a dependency fails or is cancelled; a start() whose
\* dependency promise was rejected ends in its next step, without invoking
\* the runner, with the rejection as task.error and the state Canceled for
\* TuzkCanceledError and Failed otherwise.
AtDeps(r, prom) == r.pc = "deps" /\ r.prom = prom

DependenciesIn(st, t, s) == {d \in SeqRange(dependenciesMap[t]) : st[d] = s}

DependencyVerdict(st, t, prom) ==
    /\ DependenciesIn(st, t, Failed) # {}
       => prom \in {TuzkDependencyFailedError(d) : d \in DependenciesIn(st, t, Failed)}
    /\ DependenciesIn(st, t, Failed) = {} /\ DependenciesIn(st, t, Canceled) # {}
       => prom = TuzkCanceledError

C24_StartStep ==
    \A t \in Tasks :
        call' = <<"Tuzk.start", t>> /\ ret' = Ok
        => /\ Len(runs'[t]) = Len(runs[t]) + 1
           /\ runs'[t][Len(runs'[t])].pc = "deps"
           /\ DependencyVerdict(state, t, runs'[t][Len(runs'[t])].prom)

C24_FinishStep ==
    \A t \in Tasks, k \in Slots :
        /\ waitForDependenciesPromiseAction[t] = k
        /\ AtDeps(runs[t][k], "pending")
        /\ \E d \in SeqRange(dependenciesMap[t]) :
               state'[d] \in {Failed, Canceled} /\ state'[d] # state[d]
        => /\ runs'[t][k].pc = "deps"
           /\ DependencyVerdict(state', t, runs'[t][k].prom)

C24_UnwindStep ==
    \A t \in Tasks, k \in Slots :
        /\ call' = <<"Tuzk.continue", t, k>>
        /\ runs[t][k].pc = "deps"
        /\ runs[t][k].prom # "resolved"
        => /\ error'[t] = runs[t][k].prom
           /\ state'[t] = IF runs[t][k].prom = TuzkCanceledError THEN Canceled ELSE Failed
           /\ Len(runs'[t]) = Len(runs[t]) - 1

C24_DependencyOutcome == [][C24_StartStep /\ C24_FinishStep /\ C24_UnwindStep]_vars

\* C25: the state of a dependent becomes Running only in the continuation
\* of a start() whose dependency promise is resolved, and that promise is
\* resolved only when every dependency is in Success: by start() itself if
\* every dependency is in Success already, and otherwise in the step in
\* which the last dependency reaches Success; the start() then sets Running,
\* and a runner that returns leaves the task in Success.
AllSuccess(st, t) == \A d \in SeqRange(dependenciesMap[t]) : st[d] = Success

C25_RunningStep ==
    \A t \in Tasks :
        state'[t] = Running /\ state[t] # Running
        => \E k \in InFlight(t) :
               call' = <<"Tuzk.continue", t, k>> /\ AtDeps(runs[t][k], "resolved")

C25_ResolveStep ==
    \A t \in Tasks, k \in Slots :
        /\ k \in InFlight(t)
        /\ AtDeps(runs[t][k], "pending")
        /\ Len(runs'[t]) = Len(runs[t])
        /\ runs'[t][k].prom = "resolved"
        => AllSuccess(state', t)

C25_StartStep ==
    \A t \in Tasks :
        call' = <<"Tuzk.start", t>> /\ ret' = Ok
        => /\ state'[t] = state[t]
           /\ Len(runs'[t]) = Len(runs[t]) + 1
           /\ runs'[t][Len(runs'[t])].pc = "deps"
           /\ AllSuccess(state, t) <=> runs'[t][Len(runs'[t])].prom = "resolved"

C25_LastSuccessStep ==
    \A t \in Tasks, k \in Slots :
        /\ waitForDependenciesPromiseAction[t] = k
        /\ AtDeps(runs[t][k], "pending")
        /\ ~AllSuccess(state, t)
        /\ AllSuccess(state', t)
        => AtDeps(runs'[t][k], "resolved")

C25_ProceedStep ==
    \A t \in Tasks, k \in Slots :
        /\ (call' = <<"Tuzk.continue", t, k>> /\ AtDeps(runs[t][k], "resolved")
                => state'[t] = Running /\ runs'[t][k].pc = "cp0")
        /\ (call' = <<"Tuzk.return", t, k>> => state'[t] = Success)

C25_AfterDependencies ==
    [][/\ C25_RunningStep
       /\ C25_ResolveStep
       /\ C25_StartStep
       /\ C25_LastSuccessStep
       /\ C25_ProceedStep]_vars

\* C26: after every step, a task with a start() blocked on its dependency
\* promise is in state Waiting; and a start() called on a task that has a
\* start() blocked on its dependency promise is rejected with
\* TuzkInvalidActionError and adds no start() in flight.
Blocked(rs) == \E k \in 1..Len(rs) : AtDeps(rs[k], "pending")

C26_BlockedStep ==
    \A t \in Tasks : Blocked(runs'[t]) => state'[t] = Waiting

C26_SecondStartStep ==
    \A t \in Tasks :
        call' = <<"Tuzk.start", t>> /\ Blocked(runs[t])
        => ret' = TuzkInvalidActionError /\ runs'[t] = runs[t]

C26_WaitingBlocksStart == [][C26_BlockedStep /\ C26_SecondStartStep]_vars

\* C27: when a run() of a composite task built by Tuzk.all ends, it ends in
\* Success if and only if every child is in Success, and then its result is
\* the list of the results of the children in the order of the list; it
\* ends in Failed only with the error of a child that is in Failed, and in
\* Cancelled only with the error of a child that is in Cancelled; the step
\* changes the state of no child.
CompositeEnds(c, k) ==
    /\ call' = <<"continue", c, k>>
    /\ runner[c] # "plain"
    /\ runs[c][k].pc = "runner"

ResultList(ts) == [i \in 1..Len(ts) |-> result[ts[i]]]

RECURSIVE Joined(_, _)
Joined(rs, i) ==
    IF i > Len(rs) THEN "]"
    ELSE (IF i = 1 THEN "[" ELSE ",") \o rs[i] \o Joined(rs, i + 1)

C27_EndStep ==
    \A c \in Tasks, k \in Slots :
        CompositeEnds(c, k) /\ runner[c] = "all"
        => LET ts == subtasks[c] IN
           /\ state'[c] = Success <=> \A i \in 1..Len(ts) : state[ts[i]] = Success
           /\ state'[c] = Success => result'[c] = Joined(ResultList(ts), 1)
           /\ state'[c] = Failed
              => \E i \in 1..Len(ts) : state[ts[i]] = Failed /\ error'[c] = error[ts[i]]
           /\ state'[c] = Cancelled
              => \E i \in 1..Len(ts) : state[ts[i]] = Cancelled /\ error'[c] = error[ts[i]]
           /\ \A i \in 1..Len(ts) : state'[ts[i]] = state[ts[i]]

C27_AllOutcome == [][C27_EndStep]_vars

\* C28: when a run() of a composite task built by Tuzk.race ends, it ends
\* as the promise of a child that was among the first to settle: in Success
\* with the value of that promise, in Cancelled with its CancelledError, or
\* in Failed with its error; the step changes neither the state nor the
\* marks of a child.
AdoptsStep(c, val) ==
    IF val \notin Errors THEN state'[c] = Success /\ result'[c] = val
    ELSE /\ state'[c] = IF val = CancelledError THEN Cancelled ELSE Failed
         /\ error'[c] = val

C28_EndStep ==
    \A c \in Tasks, k \in Slots :
        CompositeEnds(c, k) /\ runner[c] = "race"
        => LET ts == subtasks[c] IN
           /\ \E i \in 1..Len(ts) :
                  ts[i] \in firstSettled /\ AdoptsStep(c, promises[c][i].val)
           /\ \A i \in 1..Len(ts) :
                  /\ state'[ts[i]] = state[ts[i]]
                  /\ shouldCancel'[ts[i]] = shouldCancel[ts[i]]
                  /\ shouldPause'[ts[i]] = shouldPause[ts[i]]

C28_RaceOutcome == [][C28_EndStep]_vars

\* C29: pause(), resume() and cancel() called on a composite task that is
\* Running or Paused return normally; each sets the mark of the composite
\* task and of every child that is Running or Paused (pause sets
\* shouldPause, resume clears it, cancel sets shouldCancel), and leaves the
\* state and the marks of every child in a terminal state as they were.
MarkedStep(op, t) ==
    IF op = "Composite.pause" THEN shouldPause'[t]
    ELSE IF op = "Composite.resume" THEN ~shouldPause'[t]
    ELSE shouldCancel'[t]

C29_FanOutStep ==
    \A c \in Tasks, op \in {"Composite.pause", "Composite.resume", "Composite.cancel"} :
        call' = <<op, c>> /\ IsActiveState(state[c])
        => /\ ret' = Ok
           /\ MarkedStep(op, c)
           /\ \A i \in 1..Len(subtasks[c]) :
                  LET t == subtasks[c][i] IN
                  IF IsActiveState(state[t]) THEN MarkedStep(op, t)
                  ELSE /\ state'[t] = state[t]
                       /\ shouldPause'[t] = shouldPause[t]
                       /\ shouldCancel'[t] = shouldCancel[t]

C29_BestEffort == [][C29_FanOutStep]_vars

\* C30: Tuzk.all and Tuzk.race leave the composite task Pending and start
\* no child: a child that was Pending is Pending after the call, and stays
\* Pending in every step in which the composite task stays Pending; a run()
\* accepted by the composite task leaves no child Pending.
Builds(c) ==
    /\ runner[c] = "plain"
    /\ \E ts \in SubtaskLists : call' \in {<<"Tuzk.all", ts>>, <<"Tuzk.race", ts>>}

C30_BuildStep ==
    \A c \in Tasks :
        (Builds(c) /\ runner'[c] # "plain") \/ (runner[c] # "plain" /\ state[c] = Pending)
        => /\ state'[c] = Pending
              => \A i \in 1..Len(subtasks'[c]) :
                     state[subtasks'[c][i]] = Pending => state'[subtasks'[c][i]] = Pending
           /\ call' = <<"run", c>> /\ ret' = Ok
              => \A i \in 1..Len(subtasks[c]) : state'[subtasks[c][i]] # Pending

C30_StartedWithComposite == [][C30_BuildStep]_vars

\* C31: submit of a task that is in the finished set of its manager takes it
\* out of the finished set and makes it active or queued; and whenever a
\* task in the active set of its manager reaches a terminal state, the same
\* step takes it out of the active set and puts it into the finished set.
C31_SubmitStep ==
    \A m \in Managers, t \in Tasks :
        /\ call' = <<"submit", m, t, <<>>>>
        /\ ret' = Ok
        /\ manager[t] = m
        /\ t \in finished[m]
        => /\ t \notin finished'[m]
           /\ t \in activated'[m] \/ t \in SeqRange(pendingQueue'[m])

C31_FinishStep ==
    \A m \in Managers, t \in Tasks :
        /\ manager[t] = m
        /\ t \in activated[m]
        /\ ~IsFinishedState(state[t])
        /\ IsFinishedState(state'[t])
        => t \notin activated'[m] /\ t \in finished'[m]

C31_Resubmitted == [][C31_SubmitStep /\ C31_FinishStep]_vars

\* C32: in every state, for every manager, no task is in two of the pending
\* queue, the active set and the finished set, and no task is in the pending
\* queue twice.
C32_Disjoint ==
    \A m \in Managers :
        LET q == pendingQueue[m] IN
        /\ SeqRange(q) \cap activated[m] = {}
        /\ SeqRange(q) \cap finished[m] = {}
        /\ activated[m] \cap finished[m] = {}
        /\ \A i, j \in 1..Len(q) : i # j => q[i] # q[j]

\* C33: a checkpoint the runner of a Running task calls, with a progress in
\* range or none, while both shouldPause and shouldCancel are set, sets the
\* state to Cancelled and rejects its promise with CancelledError; the state
\* is not Paused and checkpointPromiseControl is null after it.
C33_CheckpointStep ==
    \A t \in Tasks, k \in Slots, p \in Progresses :
        /\ call' = <<"checkpoint", t, k, p>>
        /\ state[t] = Running
        /\ shouldPause[t] /\ shouldCancel[t]
        /\ InRange(p)
        => /\ state'[t] = Cancelled
           /\ runs'[t][k].pc = "cp"
           /\ runs'[t][k].prom = CancelledError
           /\ checkpointPromiseControl'[t] = 0

C33_CancelBeforePause == [][C33_CheckpointStep]_vars

C33_Witness ==
    \E t \in Tasks, k \in Slots, p \in Progresses :
        /\ call = <<"checkpoint", t, k, p>>
        /\ shouldPause[t] /\ shouldCancel[t]
        /\ state[t] = Cancelled
        /\ k \in InFlight(t)
        /\ runs[t][k].prom = CancelledError

\* C34: pause() and cancel() on a Running task return normally and change
\* nothing but the mark they set: the state stays Running and no promise is
\* settled; a Running task with one run() in flight leaves Running only in a
\* step of that run (its runner calls checkpoint, returns or throws, or the
\* run goes on after a checkpoint), never in a call of the host; and a
\* runner that returns after pause() or cancel() without having called
\* checkpoint since leaves the task in Success with progress 1.0 and the
\* value returned as result.
C34_MarkStep ==
    \A t \in Tasks :
        call' \in {<<"pause", t>>, <<"cancel", t>>} /\ state[t] = Running
        => /\ ret' = Ok
           /\ state'[t] = Running
           /\ IF call'[1] = "pause"
              THEN shouldPause'[t] /\ shouldCancel'[t] = shouldCancel[t]
              ELSE shouldCancel'[t] /\ shouldPause'[t] = shouldPause[t]
           /\ runs'[t] = runs[t]
           /\ progress'[t] = progress[t]
           /\ checkpointPromiseControl'[t] = checkpointPromiseControl[t]

C34_RunningStep ==
    \A t \in Tasks :
        state[t] = Running /\ Len(runs[t]) = 1 /\ state'[t] # Running
        => /\ call'[1] \in {"checkpoint", "continue", "return", "throw"}
           /\ call'[2] = t

C34_ReturnStep ==
    \A t \in Tasks, k \in Slots, v \in Values :
        call' = <<"return", t, k, v>> /\ k \in told[t] \cup toldPause[t]
        => /\ state'[t] = Success
           /\ progress'[t] = ProgressOne
           /\ result'[t] = v

C35_ResumeStep ==
    \A t \in Tasks :
        call' = <<"resume", t>> /\ state[t] = Running
        => /\ ret' = Ok
           /\ checkpointPromiseControl[t] = 0
           /\ state'[t] = Running
           /\ ~shouldPause'[t]
           /\ shouldCancel'[t] = shouldCancel[t]
           /\ runs'[t] = runs[t]
           /\ progress'[t] = progress[t]
           /\ checkpointPromiseControl'[t] = 0
           /\ toldPause'[t] = {}

C35_CheckpointStep ==
    \A t \in Tasks, k \in Slots, p \in Progresses :
        /\ call' = <<"checkpoint", t, k, p>>
        /\ state[t] = Running
        /\ ~shouldPause[t]
        /\ ~shouldCancel[t]
        /\ InRange(p)
        => /\ state'[t] = Running
           /\ runs'[t][k].pc = "cp"
           /\ runs'[t][k].prom = "resolved"
           /\ checkpointPromiseControl'[t] = 0

C35_ResumeRunning == [][C35_ResumeStep /\ C35_CheckpointStep]_vars

C35_Witness ==
    \E t \in Tasks, k \in Slots :
        /\ call = <<"resume", t>>
        /\ ret = Ok
        /\ state[t] = Running
        /\ ~shouldPause[t]
        /\ k \in 1..Len(runs[t])
        /\ runs[t][k].pc = "runner"
        /\ checkpointPromiseControl[t] = 0

\* C36: the dependencies recorded through the manager accumulate: a call
\* addDependency(t, d) that returns normally leaves d and every dependency
\* recorded before in the dependency set of t, and a call submit(t, ds) that
\* returns normally leaves every task of ds in it.
C36_AddStep ==
    \A m \in Managers, t, d \in Tasks :
        call' = <<"addDependency", m, t, d>> /\ ret' = Ok
        => d \in dependencies'[t] /\ dependencies[t] \subseteq dependencies'[t]

C36_SubmitStep ==
    \A m \in Managers, t \in Tasks, ds \in DepLists :
        call' = <<"submit", m, t, ds>> /\ ret' = Ok
        => \A i \in 1..Len(ds) : ds[i] \in dependencies'[t]

C36_Accumulate == [][C36_AddStep /\ C36_SubmitStep]_vars

\* C37: in a step in which a task of the manager finishes, the admission
\* sweep takes out of the pending queue exactly the tasks it starts and
\* leaves the others in their order; a task it starts has all its
\* dependencies in Success, is Running and in the active set, and the
\* active set is not over the limit; a task it leaves in the queue although
\* all its dependencies are in Success was reached with the active set
\* full, so that no task behind it was started; a task with a dependency
\* not in Success is left in the queue while tasks behind it are started.
\* Outside such a step the queue changes by a submit call that appends its
\* task only.  Hence, between steps, no task with all dependencies in
\* Success waits in the queue while a slot is free: it was started by the
\* sweep of the step in which the last of the two came about.
Kept(q, S) == SelectSeq(q, LAMBDA x : x \in S)

ReadyAfter(t) == \A d \in dependencies'[t] : state'[d] = Success

C37_SweepStep ==
    LET m == FirstManager
        q == pendingQueue[m]
        left == SeqRange(pendingQueue'[m])
        full == Cardinality(activated'[m]) >= concurrency[m]
    IN  finished'[m] \ finished[m] # {}
        => /\ pendingQueue'[m] = Kept(q, left)
           /\ \A t \in SeqRange(q) \ left :
                  /\ ReadyAfter(t)
                  /\ state'[t] = Running
                  /\ t \in activated'[m]
                  /\ Cardinality(activated'[m]) <= concurrency[m]
           /\ \A i \in 1..Len(q) :
                  q[i] \in left /\ ReadyAfter(q[i])
                  => full /\ \A j \in (i + 1)..Len(q) : q[j] \in left
           /\ \A i \in 1..Len(q) : ~ReadyAfter(q[i]) => q[i] \in left

C37_QueueStep ==
    LET m == FirstManager IN
    finished'[m] \ finished[m] = {}
    => \/ pendingQueue'[m] = pendingQueue[m]
       \/ \E t \in Tasks : pendingQueue'[m] = Append(pendingQueue[m], t)

C37_NoReadyIdle ==
    \A t \in SeqRange(pendingQueue[FirstManager]) :
        AreDependenciesMet(Heap, t) => ~HasCapacity(Heap, FirstManager)

C37_Sweep == [][C37_SweepStep /\ C37_QueueStep /\ C37_NoReadyIdle']_vars

\* a task has finished, and the task started last was submitted after a
\* task that is still first in the queue, waiting for a dependency
C37_Witness ==
    LET q == pendingQueue[FirstManager] IN
    \E t, u \in Tasks :
        /\ Len(q) > 0
        /\ q[1] = t
        /\ ~AreDependenciesMet(Heap, t)
        /\ Len(startOrder) > 0
        /\ startOrder[Len(startOrder)] = u
        /\ \E i, j \in 1..Len(submitOrder) :
               i < j /\ submitOrder[i] = t /\ submitOrder[j] = u
        /\ state[u] = Running
        /\ finished[FirstManager] # {}

\* C38: a call addDependency(task, dep) of a manager that may wrap task (it
\* owns task, or nobody does) is rejected only when the edge would close a
\* cycle: whenever dep is not task and task cannot be reached from dep
\* through the recorded dependencies, the call returns normally and dep is
\* in the dependencies of task afterwards, also when no manager has wrapped
\* dep.
RECURSIVE Reaches(_, _, _)
Reaches(from, to, fuel) ==
    /\ fuel > 0
    /\ \/ to \in dependencies[from]
       \/ \E d \in dependencies[from] : Reaches(d, to, fuel - 1)

C38_AddStep ==
    \A m \in Managers, t, d \in Tasks :
        /\ call' = <<"addDependency", m, t, d>>
        /\ manager[t] \in {0, m}
        /\ d # t
        /\ ~Reaches(d, t, NumTasks)
        => ret' = Ok /\ d \in dependencies'[t]

C38_OnlyCycles == [][C38_AddStep]_vars

\* C39: for a task of the batch, a step in which it enters Running from a
\* state that is not active broadcasts onTaskActivated with it exactly
\* once; a step that leaves it active (also Paused -> Running and Running ->
\* Paused) broadcasts onTaskActivated with it not at all; a step in which it
\* reaches a terminal state broadcasts onTaskFinished with it exactly once,
\* and no other step broadcasts onTaskFinished with it.
C39_ActivatedStep ==
    \A t \in Tasks :
        /\ ~IsActiveState(state[t]) /\ state'[t] = Running => announced'[t][1] = 1
        /\ IsActiveState(state[t]) /\ IsActiveState(state'[t]) => announced'[t][1] = 0

C39_FinishedStep ==
    \A t \in Tasks :
        announced'[t][2] = IF ~IsFinishedState(state[t]) /\ IsFinishedState(state'[t])
                       THEN 1 ELSE 0

C39_OncePerEntry == [][C39_ActivatedStep /\ C39_FinishedStep]_vars

\* C40: once cancel() has rejected the checkpoint of a parked run, no call
\* of the host changes that: pause(), resume(), cancel() and run() on the
\* task, in any number and order, leave the promise rejected with
\* CancelledError and the task active (Paused, or Running after a
\* resume()), and run() is refused; the only step the run makes afterwards
\* is into its catch block, never back into the runner, and it leaves the
\* task Cancelled with task.error the CancelledError, the promise of run()
\* rejected with it and the result untouched.
Doomed(t, k) ==
    /\ IsActiveState(state[t])
    /\ k \in 1..Len(runs[t])
    /\ runs[t][k] = [pc |-> "cp", prom |-> CancelledError]

C40_HostStep ==
    \A t \in Tasks, k \in Slots :
        /\ Doomed(t, k)
        /\ call' \in {<<"pause", t>>, <<"resume", t>>, <<"cancel", t>>, <<"run", t>>}
        => /\ Len(runs'[t]) = Len(runs[t])
           /\ runs'[t][k] = runs[t][k]
           /\ IsActiveState(state'[t])
           /\ result'[t] = result[t]
           /\ call' = <<"run", t>> => ret' = InvalidStateError

C40_UnwindStep ==
    \A t \in Tasks, k \in Slots :
        Doomed(t, k) /\ call' \in StepsOfRun(t, k)
        => /\ call' = <<"continue", t, k>>
           /\ state'[t] = Cancelled
           /\ error'[t] = CancelledError
           /\ settled'[t] = <<"rejected", CancelledError>>
           /\ result'[t] = result[t]
           /\ Len(runs'[t]) = Len(runs[t]) - 1

C40_CancelWins == [][C40_HostStep /\ C40_UnwindStep]_vars

\* resume() was called after cancel() had rejected the parked checkpoint:
\* the task is Running, the checkpoint stays rejected
C40_Witness ==
    \E t \in Tasks, k \in Slots :
        /\ call = <<"resume", t>>
        /\ ret = Ok
        /\ state[t] = Running
        /\ shouldCancel[t]
        /\ checkpointPromiseControl[t] = 0
        /\ Doomed(t, k)

====
